---- MODULE Spec2Model ----
(***************************************************************************)
(* Watchtower uptime monitor: the per-endpoint circuit breaker              *)
(* (app/lib/circuit-breaker.ts), the monitoring engine                      *)
(* (app/lib/monitoring.ts) and the live event bus                           *)
(* (app/lib/websocket-server.ts).                                           *)
(*                                                                         *)
(* Time is counted in units of TimeUnitMs milliseconds; every Date.now()   *)
(* of the source reads the variable now.  JavaScript runs each handler to  *)
(* its next await without interruption, so one action is one such run.     *)
(***************************************************************************)
EXTENDS Integers, Sequences, FiniteSets, TLC

\* ------------------------------------------------------------------ bounds
MaxNow == 6
MaxRequests == 5
MaxPending == 2

\* ------------------------------------------------------- program constants
TimeUnitMs == 100 * 1000
MonitoringPeriodMs == 300000
FailureThresholdPct == 70
MinimumRequests == 3
ResetTimeoutFactorMs == 3000
\* checkInterval (seconds) of the endpoints the model probes, of the allowed
\* 5..3600 the one that makes resetTimeout as long as monitoringPeriod
CheckIntervalSec == MonitoringPeriodMs \div ResetTimeoutFactorMs

\* ------------------------------------------------------------ the breaker
\* monitoring.ts:107-124, the configuration checkEndpoint passes to the factory
BreakerConfig(checkInterval) ==
    [ failureThreshold |-> FailureThresholdPct,
      resetTimeout     |-> (checkInterval * ResetTimeoutFactorMs) \div TimeUnitMs,
      monitoringPeriod |-> MonitoringPeriodMs \div TimeUnitMs,
      minimumRequests  |-> MinimumRequests ]

\* circuit-breaker.ts:15-27, a breaker as constructed (lastFailureTime, which
\* no decision reads, is left out)
NewBreaker(cfg) ==
    [ state             |-> "CLOSED",
      failures          |-> 0,
      successes         |-> 0,
      nextAttempt       |-> 0,
      requestCount      |-> 0,
      requestTimestamps |-> <<>>,
      config            |-> cfg ]

NoBreaker == [NewBreaker(BreakerConfig(0)) EXCEPT !.state = "NONE"]

\* circuit-breaker.ts:91-100
cleanOldTimestamps(b, t) ==
    LET cutoff == t - b.config.monitoringPeriod
        kept   == SelectSeq(b.requestTimestamps, LAMBDA ts : ts > cutoff)
    IN  IF Len(kept) = 0
        THEN [b EXCEPT !.requestTimestamps = kept,
                       !.failures = 0, !.successes = 0, !.requestCount = 0]
        ELSE [b EXCEPT !.requestTimestamps = kept]

\* Each of the three operators below yields the breaker after the call and
\* the states handed to config.onStateChange, in order.

\* execute still rejecting at the instant nextAttempt
executeEntryLate(b, t) ==
    LET c == cleanOldTimestamps(b, t)
    IN  IF c.state = "OPEN"
        THEN IF t <= c.nextAttempt
             THEN [b |-> c, admitted |-> FALSE, hooks |-> <<>>]
             ELSE [b |-> [c EXCEPT !.state = "HALF_OPEN"],
                   admitted |-> TRUE, hooks |-> <<"HALF_OPEN">>]
        ELSE [b |-> c, admitted |-> TRUE, hooks |-> <<>>]

\* circuit-breaker.ts:29-40, execute up to the call of operation():
\* admitted is FALSE when it throws "Circuit breaker is OPEN"
executeEntry(b, t) ==
    LET c == cleanOldTimestamps(b, t)
    IN  IF c.state = "OPEN"
        THEN IF t < c.nextAttempt
             THEN [b |-> c, admitted |-> FALSE, hooks |-> <<>>]
             ELSE [b |-> [c EXCEPT !.state = "HALF_OPEN"],
                   admitted |-> TRUE, hooks |-> <<"HALF_OPEN">>]
        ELSE [b |-> c, admitted |-> TRUE, hooks |-> <<>>]

\* circuit-breaker.ts:51-65
onSuccess(b, t) ==
    LET b1 == [b EXCEPT !.failures = 0,
                        !.requestCount = @ + 1,
                        !.requestTimestamps = Append(@, t)]
    IN  IF b1.state = "HALF_OPEN"
        THEN LET b2 == [b1 EXCEPT !.successes = @ + 1]
             IN  IF b2.successes >= b2.config.minimumRequests
                 THEN [b |-> [b2 EXCEPT !.state = "CLOSED", !.successes = 0],
                       hooks |-> <<"CLOSED">>]
                 ELSE [b |-> b2, hooks |-> <<>>]
        ELSE [b |-> b1, hooks |-> <<>>]

\* circuit-breaker.ts:67-89
onFailure(b, t) ==
    LET b1 == [b EXCEPT !.failures = @ + 1,
                        !.successes = 0,
                        !.requestCount = @ + 1,
                        !.requestTimestamps = Append(@, t)]
        opened == [b1 EXCEPT !.state = "OPEN",
                             !.nextAttempt = t + b1.config.resetTimeout]
    IN  IF b1.state = "HALF_OPEN"
        THEN [b |-> opened, hooks |-> <<"OPEN">>]
        ELSE IF /\ b1.requestCount >= b1.config.minimumRequests
                /\ b1.failures * 100 >= b1.config.failureThreshold * b1.requestCount
             THEN [b |-> opened, hooks |-> <<"OPEN">>]
             ELSE [b |-> b1, hooks |-> <<>>]

\* circuit-breaker.ts:117-125
reset(b) ==
    [b |-> [b EXCEPT !.state = "CLOSED", !.failures = 0, !.successes = 0,
                     !.requestCount = 0, !.nextAttempt = 0,
                     !.requestTimestamps = <<>>],
     hooks |-> <<>>]

\* ------------------------------------------------------------- the state
VARIABLES
    now,                  \* Date.now(), in units of TimeUnitMs
    dbEndpoints,          \* table endpoints: id -> row, or NoRow
    dbChecks,             \* table uptime_checks: the set of its rows
    intervals,            \* MonitoringEngine.intervals: id -> timer handle, 0 = no entry
    timers,               \* the timers setInterval made and clearInterval has not cleared
    probes,               \* the checkEndpoint calls that wait at an await
    nextPid,              \* the number the next checkEndpoint call gets
    breakers,             \* CircuitBreakerFactory.breakers: id -> breaker, or NoBreaker
    consecutiveFailures,  \* MonitoringEngine.consecutiveFailures
    calls,                \* startMonitoring / restartEndpointMonitoring calls under way
    nextCall,             \* the number the next such call gets
    bus,                  \* the events the last step handed to the broadcast functions, in order
    announced,            \* the ids of the checks a newCheck event has been published for
    stopped,              \* stopMonitoring returned and neither startMonitoring nor
                          \* restartEndpointMonitoring has been called since
    cb,                   \* BreakerSpec: one CircuitBreaker
    cbPending,            \* BreakerSpec: the operations execute has called and not seen settle
    cbLast,               \* BreakerSpec: what the last two calls of the breaker did
    cbSamples,            \* BreakerSpec: the outcomes recorded at the timestamps still kept
    cbHooks,              \* the states the last call of the breaker handed to onStateChange
    endpointUp,           \* LoopSpec: the endpoint answers with the expected status from now on
    sockets,              \* io.sockets.sockets: the sessions established, of those the model names
    otherSockets,         \* io.sockets.sockets: how many more sessions are established
    joined,               \* the rooms of the socket.io adapter: session -> rooms joined
    clientRooms,          \* the map clientRooms: session -> rooms, NoRooms = no entry
    inbox,                \* session -> the events emitted to it, in order
    nextEvent,            \* the number the next published event gets
    lastConnect,          \* how the last connection attempt ended
    wsNow,                \* SweeperSpec: Date.now() of the websocket server, in units of WsTickMs
    clientLastActivity,   \* the map clientLastActivity: session -> time, NoActivity = no entry
    sweeper,              \* when the idle sweeper last ran and the sessions it disconnected
    fullUpdates,          \* session -> its requestFullUpdate handler: position, snapshot, index i
    cleanupNow,           \* RetentionSpec: NOW() of the store and new Date(), in ticks
    raw,                  \* RetentionSpec: table uptime_checks, rows with their timestamps
    hourly,               \* table uptime_checks_hourly
    daily,                \* table uptime_checks_daily
    isRunning,            \* DataCleanupJob.isRunning
    jobs,                 \* the calls of DataCleanupJob.run that wait at an await
    nextJob,              \* the number the next call of run gets
    lastRun,              \* how the last call of run that returned or threw ended
    snap,                 \* the tables as the first completed run left them
    cleanupConfig,        \* DataCleanupJob.config, fixed by the constructor
    lastVacuum,           \* how the last vacuumTables ended
    scheduler,            \* the Scheduler: isRunning, cleanupInterval, and its live timers
    rlNow,                \* LimiterSpec: Date.now(), in units of RateTickMs
    rlStore,              \* the Map store of the rate limiter: key -> record, NoRecord = no entry
    rlLast,               \* what the last call of a rate limit middleware returned
    rlSeen,               \* limiter -> key -> the requests it saw in its own running window
    apiCalls,             \* ApiSpec: the POST handlers that wait for their insert
    apiLast,              \* ApiSpec: the response of the last POST or PUT that returned
    statsRow,             \* StatsSpec: the counts the statistics query returned
    statsOut              \* StatsSpec: the uptimePercentage reported for them, in hundredths

engineVars == <<now, dbEndpoints, dbChecks, intervals, timers, probes, nextPid,
                breakers, consecutiveFailures, calls, nextCall, bus, announced,
                stopped>>

breakerVars == <<cb, cbPending, cbLast, cbSamples, cbHooks, endpointUp>>

busVars == <<sockets, otherSockets, joined, clientRooms, inbox, nextEvent, lastConnect,
             wsNow, clientLastActivity, sweeper, fullUpdates>>

retentionVars == <<cleanupNow, raw, hourly, daily, isRunning, jobs, nextJob, lastRun, snap,
                   cleanupConfig, lastVacuum, scheduler>>

limiterVars == <<rlNow, rlStore, rlLast, rlSeen>>

apiVars == <<apiCalls, apiLast>>

statsVars == <<statsRow, statsOut>>

nonEngineVars == <<breakerVars, busVars, retentionVars, limiterVars, apiVars, statsVars>>

nonBreakerVars == <<engineVars, busVars, retentionVars, limiterVars, apiVars, statsVars>>

nonBusVars == <<engineVars, breakerVars, retentionVars, limiterVars, apiVars, statsVars>>

nonRetentionVars == <<engineVars, breakerVars, busVars, limiterVars, apiVars, statsVars>>

nonLimiterVars == <<engineVars, breakerVars, busVars, retentionVars, apiVars, statsVars>>

vars == <<engineVars, nonEngineVars>>

MaxProbes == 2
MaxClock == 1
MaxTicks == 4
MaxInFlight == 2
MaxCalls == 2
EndpointIds == {1, 2}
NoRow == [exists |-> FALSE, enabled |-> FALSE, checkInterval |-> 0, timeout |-> 0,
          name |-> ""]
NoCheck ==
    [ id |-> 0, endpointId |-> 0, status |-> "NONE", statusCode |-> 0,
      responseTime |-> 0, errorReason |-> "" ]
ExpectedStatus == 200
SessionIds == {1, 2}
GlobalRoom == [kind |-> "global", id |-> 0]
EndpointRoom(e) == [kind |-> "endpoint", id |-> e]
Rooms == {GlobalRoom} \cup {EndpointRoom(e) : e \in EndpointIds}
NoRooms == {[kind |-> "none", id |-> 0]}
MAX_CLIENTS == 100
MAX_ROOMS_PER_CLIENT == 10
MaxEvents == 2
MaxRoomIds == 11
MaxNotices == 3
\* ------------------------------------------------- retention: time and rows
\* Time of the retention job is counted in ticks of half an hour.
TicksPerHour == 1 + 1
HoursPerDay == 24
TicksPerDay == TicksPerHour * HoursPerDay
DetailRetentionDays == 7
HourlyRetentionDays == 30
DailyRetentionDays == 90
DeleteEnabled == TRUE
\* python-api.ts:254-260, of which run tests deleteEnabled
defaultConfig == [deleteEnabled |-> DeleteEnabled]
\* the rows one DELETE of deleteOldDetailedData takes (batchSize, 10000 in the
\* default configuration)
BatchSize == 2
MaxTriggers == 3
MaxCleanupTicks == 1
MaxInserts == 2
\* the first run starts 100 days after the epoch, half an hour past midnight
CleanupStart == 100 * TicksPerDay + 1
NoSnap == [taken |-> FALSE, raw |-> {}, hourly |-> {}, daily |-> {}]
\* scheduler.ts:4-5, a Scheduler as constructed, with the timers of its that
\* are live: timeouts for the first run, intervalTimers for the daily one;
\* calls counts the calls of start and stop
NewScheduler ==
    [isRunning |-> FALSE, cleanupInterval |-> FALSE, timeouts |-> 0,
     intervalTimers |-> 0, calls |-> 0]
MaxSchedulerCalls == 4

\* websocket-server.ts:25 and 30-43, the idle timeout and the period of the
\* sweeper; the clock of the websocket server counts ticks of half a minute
WsTickMs == 30 * 1000
CLIENT_TIMEOUT == 5 * 60 * 1000
SweepPeriodMs == 60000
MaxWsNow == 14
NoActivity == 0 - 1
\* websocket-server.ts:140, the statistics one bulkUpdate message holds at most
CHUNK_SIZE == 20
MaxStatistics == 41
NoFullUpdate == [pc |-> "idle", all |-> <<>>, i |-> 0]

\* python-api.ts:147-210, the rate limiters of the endpoints routes; the clock
\* of the limiter counts ticks of one minute
RateTickMs == 60 * 1000
WindowMs == 60 * 1000
ApiMax == 60
CreateEndpointMax == 10
MaxRateNow == 2
MaxAttempts == 62
ClientKeys == {"10.0.0.1"}
Limiters == {"apiRateLimit", "createEndpointRateLimit"}
NoRecord == [present |-> FALSE, attempts |-> 0, resetTime |-> 0]
NoAnswer == [limiter |-> "none", key |-> "", status |-> 0, retryAfter |-> 0]
NoResponse == [status |-> 0]

\* monitoring.ts:551-555: a JavaScript number is an IEEE 754 double, with a
\* significand of 53 bits
Precision == 53
LimbDigits == 18
MaxTotal == 160
NotReported == 0 - 1

\* api/endpoints/route.ts:114-126 and [id]/route.ts:91-93, the values a request
\* that leaves a field out is given, and the limits POST clamps to; seconds
DefaultCheckInterval == 30
DefaultTimeout == 5
MinCheckInterval == 5
MaxCheckInterval == 3600
MinTimeout == 1
MaxTimeout == 60
\* the names of the rows the store starts with
StoredNames == <<"a", "b">>
\* what a request body can hold: 0 stands for a field left out
BodyNames == {"", "a", "A", "c"}
BodyUrls == {"", "ftp://host", "http://host"}
BodyCheckIntervals == {0, 3}
BodyTimeouts == {0, 70}
MaxPosts == 2
MaxUpdateProbes == 4
MaxLoopRequests == 6
\* checkInterval (seconds) of the loops LoopSpec runs, of the allowed 5..3600
LoopIntervals == {100, 400}
Bodies ==
    [ name : BodyNames, url : BodyUrls, checkInterval : BodyCheckIntervals,
      timeout : BodyTimeouts, enabled : {TRUE} ]

\* the rooms a subscribe request can name: endpointId is any value the client sends
RequestableRooms == {GlobalRoom} \cup {EndpointRoom(e) : e \in 1..MaxRoomIds}
\* a status a response can carry that is not the expected one
UnexpectedStatus == ExpectedStatus + 300

\* monitoring.ts:360-385, the Endpoint object a row maps to
EndpointOf(id, row) ==
    [id |-> id, checkInterval |-> row.checkInterval, timeout |-> row.timeout,
     enabled |-> row.enabled]

\* The part of the state one uninterrupted run of engine code can change; bus
\* starts empty and collects what the run publishes.
Engine ==
    [ intervals |-> intervals, timers |-> timers, probes |-> probes,
      nextPid |-> nextPid, breakers |-> breakers,
      consecutiveFailures |-> consecutiveFailures, bus |-> <<>>,
      stopped |-> stopped ]

SetEngine(S) ==
    /\ intervals' = S.intervals
    /\ timers' = S.timers
    /\ probes' = S.probes
    /\ nextPid' = S.nextPid
    /\ breakers' = S.breakers
    /\ consecutiveFailures' = S.consecutiveFailures
    /\ bus' = S.bus
    /\ stopped' = S.stopped
    /\ UNCHANGED nonEngineVars
    /\ announced' = announced \cup
            {S.bus[i].check.id : i \in {j \in 1..Len(S.bus) : S.bus[j].event = "newCheck"}}

\* websocket-server.ts:218-229
broadcastSystemStatus(S, message, type) ==
    [S EXCEPT !.bus = Append(@, [event |-> "systemStatus", message |-> message,
                                 type |-> type])]

\* broadcastNewCheck publishing nothing
broadcastNewCheckDropped(S, check) == S

\* websocket-server.ts:207-216
broadcastNewCheck(S, check) ==
    [S EXCEPT !.bus = Append(@, [event |-> "newCheck", check |-> check])]

\* websocket-server.ts:195-205
broadcastUptimeUpdate(S, stats) ==
    [S EXCEPT !.bus = Append(@, [event |-> "uptimeUpdate", stats |-> stats])]

\* monitoring.ts:114-122, the onStateChange hook checkEndpoint installs
RECURSIVE onStateChange(_, _, _)
onStateChange(S, endpointId, hooks) ==
    IF hooks = <<>> THEN S
    ELSE onStateChange(
            IF Head(hooks) = "OPEN"
            THEN broadcastSystemStatus(S, <<"Circuit breaker opened", endpointId>>,
                                       "warning")
            ELSE S,
            endpointId, Tail(hooks))

\* circuit-breaker.ts:133-139
factoryGet(S, endpoint) ==
    IF S.breakers[endpoint.id] = NoBreaker
    THEN NewBreaker(BreakerConfig(endpoint.checkInterval))
    ELSE S.breakers[endpoint.id]

\* monitoring.ts:188-196
OpenCircuitCheck(pid, endpoint) ==
    [ id |-> pid, endpointId |-> endpoint.id, status |-> "DOWN", statusCode |-> 0,
      responseTime |-> 0, errorReason |-> "Circuit breaker open" ]

\* checkEndpoint treating a call the breaker rejected as a failed fetch
checkEndpointBeginCounted(S, endpoint, t) ==
    LET r   == executeEntry(factoryGet(S, endpoint), t)
        pid == S.nextPid
        S1  == [S EXCEPT !.breakers[endpoint.id] = r.b, !.nextPid = pid + 1]
        S2  == onStateChange(S1, endpoint.id, r.hooks)
    IN  [S2 EXCEPT !.probes = @ \cup
            {[pid |-> pid, endpoint |-> endpoint,
              pc |-> IF r.admitted THEN "fetch" ELSE "storeDown",
              startTime |-> t,
              check |-> IF r.admitted THEN NoCheck
                        ELSE OpenCircuitCheck(pid, endpoint)]}]

\* monitoring.ts:105-136 and 174-198: checkEndpoint from its call to its first
\* await, which is the fetch when the breaker admits the call and the insert
\* of the short-circuit row when it rejects it
checkEndpointBegin(S, endpoint, t) ==
    LET r   == executeEntry(factoryGet(S, endpoint), t)
        pid == S.nextPid
        S1  == [S EXCEPT !.breakers[endpoint.id] = r.b, !.nextPid = pid + 1]
        S2  == onStateChange(S1, endpoint.id, r.hooks)
    IN  IF r.admitted
        THEN [S2 EXCEPT !.probes = @ \cup
                 {[pid |-> pid, endpoint |-> endpoint, pc |-> "fetch",
                   startTime |-> t, check |-> NoCheck]}]
        ELSE [S2 EXCEPT !.probes = @ \cup
                 {[pid |-> pid, endpoint |-> endpoint, pc |-> "storeOpen",
                   startTime |-> t, check |-> OpenCircuitCheck(pid, endpoint)]}]

\* startEndpointMonitoring without its guard against a registered loop
startEndpointMonitoringUnguarded(S, endpoint, t) ==
    LET tid == S.nextPid
        S1  == checkEndpointBegin(S, endpoint, t)
    IN  [S1 EXCEPT !.timers = @ \cup {[tid |-> tid, endpoint |-> endpoint]},
                   !.intervals[endpoint.id] = tid]

\* monitoring.ts:84-103; the timer handle is the number of the probe fired at
\* the loop's start
startEndpointMonitoring(S, endpoint, t) ==
    IF S.intervals[endpoint.id] # 0
    THEN S
    ELSE LET tid == S.nextPid
             S1  == checkEndpointBegin(S, endpoint, t)
         IN  [S1 EXCEPT !.timers = @ \cup {[tid |-> tid, endpoint |-> endpoint]},
                        !.intervals[endpoint.id] = tid]

\* monitoring.ts:47-61
stopMonitoring(S) ==
    broadcastSystemStatus(
        [S EXCEPT !.timers = {tm \in @ : \A e \in EndpointIds : S.intervals[e] # tm.tid},
                  !.intervals = [e \in EndpointIds |-> 0],
                  !.consecutiveFailures = [e \in EndpointIds |-> 0]],
        <<"Monitoring engine stopped">>, "info")

\* handleConsecutiveFailures counting the failures and never starting over
handleConsecutiveFailuresKept(S, endpointId, check) ==
    IF check.status = "UP"
    THEN S
    ELSE [S EXCEPT !.consecutiveFailures[endpointId] = @ + 1]

\* monitoring.ts:267-292
handleConsecutiveFailures(S, endpointId, check) ==
    IF check.status = "UP"
    THEN LET previousFailures == S.consecutiveFailures[endpointId]
             S1 == [S EXCEPT !.consecutiveFailures[endpointId] = 0]
         IN  IF previousFailures > 0
             THEN broadcastSystemStatus(S1, <<"back online", endpointId,
                                              previousFailures>>, "info")
             ELSE S1
    ELSE LET newCount == S.consecutiveFailures[endpointId] + 1
             S1 == [S EXCEPT !.consecutiveFailures[endpointId] = newCount]
         IN  IF newCount % 3 = 0
             THEN broadcastSystemStatus(S1, <<"consecutive failures", endpointId,
                                              newCount>>, "error")
             ELSE S1

\* ------------------------------------------------------- one probe's steps
Breaker(p) == breakers[p.endpoint.id]

\* The probe p replaced by q, or removed when q is NoProbe.
NoProbe == [pid |-> 0]
Continue(S, p, q) ==
    [S EXCEPT !.probes = IF q = NoProbe THEN @ \ {p} ELSE (@ \ {p}) \cup {q}]

\* monitoring.ts:147-155
UpCheck(p, t) ==
    [ id |-> p.pid, endpointId |-> p.endpoint.id, status |-> "UP",
      statusCode |-> ExpectedStatus, responseTime |-> t - p.startTime,
      errorReason |-> "" ]

\* The ways the fetch of a probe settles: a response of the expected status
\* or of another one; the signal of AbortSignal.timeout aborting the request,
\* which a runtime that rejects with the signal's reason reports as a
\* TimeoutError and one that does not as an AbortError; no connection.
FetchOutcomes == {"ok", "status", "timeout", "aborted", "network"}

\* monitoring.ts:130-145: what the operation throws, the name of the error and
\* the pieces of its message
FetchError(outcome) ==
    CASE outcome = "status" ->
            [name |-> "Error",
             message |-> <<"Got ", ToString(UnexpectedStatus), ", expected ",
                           ToString(ExpectedStatus)>>]
      [] outcome = "timeout" ->
            [name |-> "TimeoutError",
             message |-> <<"The operation was aborted due to timeout">>]
      [] outcome = "aborted" ->
            [name |-> "AbortError", message |-> <<"This operation was aborted">>]
      [] OTHER ->
            [name |-> "TypeError", message |-> <<"fetch failed">>]

\* the pieces of a message as one string
Text(message) ==
    LET upTo[i \in 0..Len(message)] ==
            IF i = 0 THEN "" ELSE upTo[i - 1] \o message[i]
    IN  upTo[Len(message)]

\* monitoring.ts:205: error.message.includes('Got')
IncludesGot(message) == \E i \in 1..Len(message) : message[i] = "Got "

\* the catch block leaving statusCode at 0
MatchedStatusDropped(message) == 0

\* monitoring.ts:206-207: error.message.match(/Got (\d+)/), parseInt of the
\* digits when there is a match and 0 otherwise
MatchedStatus(message) ==
    LET i == CHOOSE k \in 1..Len(message) : message[k] = "Got "
    IN  IF i < Len(message) /\ \E n \in 0..999 : ToString(n) = message[i + 1]
        THEN CHOOSE n \in 0..999 : ToString(n) = message[i + 1]
        ELSE 0

\* monitoring.ts:175-177 and 202-222: the DOWN row of a failed fetch
DownCheck(p, outcome, t) ==
    LET error == FetchError(outcome)
    IN  [ id |-> p.pid, endpointId |-> p.endpoint.id, status |-> "DOWN",
          statusCode |->
              IF error.name # "AbortError" /\ IncludesGot(error.message)
              THEN MatchedStatus(error.message) ELSE 0,
          responseTime |-> t - p.startTime,
          errorReason |->
              IF error.name = "AbortError"
              THEN "Timeout after " \o ToString(p.endpoint.timeout) \o "s"
              ELSE IF IncludesGot(error.message) THEN Text(error.message)
              ELSE "Connection failed: " \o Text(error.message) ]

\* monitoring.ts:130-157 and circuit-breaker.ts:41-48: the fetch settles.  With
\* the expected status the operation goes on to the insert; otherwise it throws,
\* execute calls onFailure and checkEndpoint's catch block reaches its insert.
FetchDone(p, outcome) ==
    /\ p \in probes /\ p.pc = "fetch"
    /\ IF outcome = "ok"
       THEN SetEngine(Continue(Engine, p,
                [p EXCEPT !.pc = "storeUp", !.check = UpCheck(p, now)]))
       ELSE LET r  == onFailure(Breaker(p), now)
                S1 == [Engine EXCEPT !.breakers[p.endpoint.id] = r.b]
                S2 == onStateChange(S1, p.endpoint.id, r.hooks)
            IN  SetEngine(Continue(S2, p,
                    [p EXCEPT !.pc = "storeDown",
                              !.check = DownCheck(p, outcome, now)]))
    /\ UNCHANGED <<now, dbEndpoints, dbChecks, calls, nextCall>>

\* monitoring.ts:241-265: whether the INSERT can succeed (the row's endpoint_id
\* is a foreign key of endpoints)
InsertPossible(check) == dbEndpoints[check.endpointId].exists

\* storeCheck rethrowing the error of its INSERT: the probe ends there
StoreDoneRethrown(p, ok) ==
    /\ p \in probes /\ p.pc \in {"storeOpen", "storeUp", "storeDown"}
    /\ ok => InsertPossible(p.check)
    /\ dbChecks' = IF ok THEN dbChecks \cup {p.check} ELSE dbChecks
    /\ IF p.pc = "storeOpen" \/ ~ok
       THEN SetEngine(Continue(Engine, p, NoProbe))
       ELSE LET S2 == handleConsecutiveFailures(Engine, p.endpoint.id, p.check)
                S3 == broadcastNewCheck(S2, p.check)
            IN  SetEngine(Continue(S3, p, [p EXCEPT !.pc = "statsEndpoint"]))
    /\ UNCHANGED <<now, dbEndpoints, calls, nextCall>>

\* monitoring.ts:157-167, 198-199, 224-233 with storeCheck 241-265: the insert
\* settles (ok: the row is stored).  The short-circuit path returns; the other
\* two count the outcome, publish newCheck and call getUptimeStatistics.
StoreDone(p, ok) ==
    /\ p \in probes /\ p.pc \in {"storeOpen", "storeUp", "storeDown"}
    /\ ok => InsertPossible(p.check)
    /\ dbChecks' = IF ok THEN dbChecks \cup {p.check} ELSE dbChecks
    /\ LET S1 == IF ok THEN Engine
                 ELSE broadcastSystemStatus(Engine,
                          <<"Failed to store check result in database">>, "error")
       IN  IF p.pc = "storeOpen"
           THEN SetEngine(Continue(S1, p, NoProbe))
           ELSE LET S2 == handleConsecutiveFailures(S1, p.endpoint.id, p.check)
                    S3 == broadcastNewCheck(S2, p.check)
                IN  SetEngine(Continue(S3, p, [p EXCEPT !.pc = "statsEndpoint"]))
    /\ UNCHANGED <<now, dbEndpoints, calls, nextCall>>

\* circuit-breaker.ts:42-44: the operation returned, execute calls onSuccess;
\* monitoring.ts:233-238: the catch block has no more to do
Finish(S, p) ==
    IF p.check.status = "UP"
    THEN LET r  == onSuccess(S.breakers[p.endpoint.id], now)
             S1 == [S EXCEPT !.breakers[p.endpoint.id] = r.b]
         IN  Continue(onStateChange(S1, p.endpoint.id, r.hooks), p, NoProbe)
    ELSE Continue(S, p, NoProbe)

\* monitoring.ts:503-510: getUptimeStatistics reads the endpoint's row; without
\* one, or when the query fails, it returns null and nothing is published
StatsEndpoint(p, ok) ==
    /\ p \in probes /\ p.pc = "statsEndpoint"
    /\ IF ok /\ dbEndpoints[p.endpoint.id].exists
       THEN SetEngine(Continue(Engine, p, [p EXCEPT !.pc = "statsChecks"]))
       ELSE SetEngine(Finish(Engine, p))
    /\ UNCHANGED <<now, dbEndpoints, dbChecks, calls, nextCall>>

\* monitoring.ts:516-577: the statistics of the rows read (the model's horizon
\* is shorter than the 24 hours counted, and holds fewer than 10 rows)
UptimeStatistics(endpointId) ==
    LET rows == {c \in dbChecks : c.endpointId = endpointId}
    IN  [ endpointId |-> endpointId,
          totalChecks |-> Cardinality(rows),
          successfulChecks |-> Cardinality({c \in rows : c.status = "UP"}),
          failedChecks |-> Cardinality({c \in rows : c.status = "DOWN"}),
          consecutiveFailures |-> consecutiveFailures[endpointId],
          recentChecks |-> {c.id : c \in rows} ]

\* monitoring.ts:167-172, 233-237 with 516-581: the two reads of uptime_checks
\* settle (as one step); uptimeUpdate is published unless a read failed
StatsChecks(p, ok) ==
    /\ p \in probes /\ p.pc = "statsChecks"
    /\ IF ok
       THEN SetEngine(Finish(broadcastUptimeUpdate(Engine,
                                 UptimeStatistics(p.endpoint.id)), p))
       ELSE SetEngine(Finish(Engine, p))
    /\ UNCHANGED <<now, dbEndpoints, dbChecks, calls, nextCall>>

\* monitoring.ts:94-96: the callback of a live timer
TimerTick(tm) ==
    /\ tm \in timers
    /\ SetEngine(checkEndpointBegin(Engine, tm.endpoint, now))
    /\ UNCHANGED <<now, dbEndpoints, dbChecks, calls, nextCall>>

\* ------------------------------------------------- the engine's controls
NoCall == [cid |-> 0]
Call(cid, kind, endpointId, pc, result) ==
    [cid |-> cid, kind |-> kind, endpointId |-> endpointId, pc |-> pc,
     result |-> result]

\* The calls with c replaced by d, or removed when d is NoCall.
Proceed(c, d) == IF d = NoCall THEN calls \ {c} ELSE (calls \ {c}) \cup {d}

\* monitoring.ts:333-358, the rows getEnabledEndpoints reads, as Endpoint objects
EnabledEndpoints ==
    {EndpointOf(e, dbEndpoints[e]) :
        e \in {x \in EndpointIds : dbEndpoints[x].exists /\ dbEndpoints[x].enabled}}

\* monitoring.ts:15-20: startMonitoring stops the engine and awaits the read of
\* the enabled endpoints
StartMonitoring ==
    /\ SetEngine([stopMonitoring(Engine) EXCEPT !.stopped = FALSE])
    /\ calls' = calls \cup {Call(nextCall, "start", 0, "query", {})}
    /\ nextCall' = nextCall + 1
    /\ UNCHANGED <<now, dbEndpoints, dbChecks>>

\* monitoring.ts:47-61, called on its own by the sample-data route
StopMonitoring ==
    /\ intervals # [e \in EndpointIds |-> 0] \/ timers # {}
    /\ SetEngine([stopMonitoring(Engine) EXCEPT !.stopped = TRUE])
    /\ UNCHANGED <<now, dbEndpoints, dbChecks, calls, nextCall>>

\* monitoring.ts:333-358: the store answers the read of a start call; a failed
\* read yields no endpoints
StartQuery(c, ok) ==
    /\ c \in calls /\ c.kind = "start" /\ c.pc = "query"
    /\ calls' = Proceed(c, [c EXCEPT !.pc = "resume",
                                     !.result = IF ok THEN EnabledEndpoints ELSE {}])
    /\ UNCHANGED <<now, dbEndpoints, dbChecks, intervals, timers, probes, nextPid,
                   breakers, consecutiveFailures, nextCall, announced, stopped>>
    /\ bus' = <<>>
    /\ UNCHANGED nonEngineVars

\* monitoring.ts:36-38, the loop over the endpoints read, in the order of
\* their ids
RECURSIVE StartAll(_, _, _)
StartAll(S, endpoints, t) ==
    IF endpoints = {} THEN S
    ELSE LET first == CHOOSE x \in endpoints : \A y \in endpoints : x.id <= y.id
         IN  StartAll(startEndpointMonitoring(S, first, t), endpoints \ {first}, t)

\* monitoring.ts:30-45: startMonitoring resumes with the endpoints read
StartResume(c) ==
    /\ c \in calls /\ c.kind = "start" /\ c.pc = "resume"
    /\ IF c.result = {}
       THEN SetEngine(broadcastSystemStatus(Engine,
                <<"No endpoints configured for monitoring">>, "warning"))
       ELSE SetEngine(broadcastSystemStatus(StartAll(Engine, c.result, now),
                <<"Monitoring started", Cardinality(c.result)>>, "info"))
    /\ calls' = Proceed(c, NoCall)
    /\ UNCHANGED <<now, dbEndpoints, dbChecks, nextCall>>

\* monitoring.ts:63-73: restartEndpointMonitoring clears the endpoint's timer
\* and awaits the read of its row
RestartBegin(c) ==
    /\ c \in calls /\ c.kind = "restart" /\ c.pc = "begin"
    /\ timers' = {tm \in timers : tm.tid # intervals[c.endpointId]}
    /\ intervals' = [intervals EXCEPT ![c.endpointId] = 0]
    /\ calls' = Proceed(c, [c EXCEPT !.pc = "query"])
    /\ UNCHANGED <<now, dbEndpoints, dbChecks, probes, nextPid, breakers,
                   consecutiveFailures, nextCall, announced, stopped>>
    /\ bus' = <<>>
    /\ UNCHANGED nonEngineVars

\* monitoring.ts:360-390: the store answers getEndpointById; a failed read
\* yields null
RestartQuery(c, ok) ==
    /\ c \in calls /\ c.kind = "restart" /\ c.pc = "query"
    /\ calls' = Proceed(c, [c EXCEPT !.pc = "resume",
            !.result = IF ok /\ dbEndpoints[c.endpointId].exists
                       THEN {EndpointOf(c.endpointId, dbEndpoints[c.endpointId])}
                       ELSE {}])
    /\ UNCHANGED <<now, dbEndpoints, dbChecks, intervals, timers, probes, nextPid,
                   breakers, consecutiveFailures, nextCall, announced, stopped>>
    /\ bus' = <<>>
    /\ UNCHANGED nonEngineVars

\* monitoring.ts:74-82: restartEndpointMonitoring resumes with the row read
RestartResume(c) ==
    /\ c \in calls /\ c.kind = "restart" /\ c.pc = "resume"
    /\ IF \E ep \in c.result : ep.enabled
       THEN LET ep == CHOOSE x \in c.result : TRUE
            IN  SetEngine(broadcastSystemStatus(
                    startEndpointMonitoring(Engine, ep, now),
                    <<"Restarted monitoring", ep.id>>, "info"))
       ELSE SetEngine(Engine)
    /\ calls' = Proceed(c, NoCall)
    /\ UNCHANGED <<now, dbEndpoints, dbChecks, nextCall>>

\* api/endpoints/[id]/route.ts:46-115: PUT updates the row and, when it found
\* one, goes on to restartEndpointMonitoring
ApiPut(e, enabled) ==
    /\ dbEndpoints[e].exists
    /\ dbEndpoints' = [dbEndpoints EXCEPT ![e].enabled = enabled]
    /\ calls' = calls \cup {Call(nextCall, "restart", e, "begin", {})}
    /\ nextCall' = nextCall + 1
    /\ UNCHANGED <<now, dbChecks, intervals, timers, probes, nextPid, breakers,
                   consecutiveFailures, announced>>
    /\ stopped' = FALSE
    /\ bus' = <<>>
    /\ UNCHANGED nonEngineVars

\* api/endpoints/[id]/route.ts:139-164: DELETE removes the row, its checks go
\* with it (ON DELETE CASCADE), and goes on to restartEndpointMonitoring
ApiDelete(e) ==
    /\ dbEndpoints[e].exists
    /\ dbEndpoints' = [dbEndpoints EXCEPT ![e] = NoRow]
    /\ dbChecks' = {c \in dbChecks : c.endpointId # e}
    /\ calls' = calls \cup {Call(nextCall, "restart", e, "begin", {})}
    /\ nextCall' = nextCall + 1
    /\ UNCHANGED <<now, intervals, timers, probes, nextPid, breakers,
                   consecutiveFailures, announced>>
    /\ stopped' = FALSE
    /\ bus' = <<>>
    /\ UNCHANGED nonEngineVars

\* Time passes.
Advance ==
    /\ now' = now + 1
    /\ UNCHANGED <<dbEndpoints, dbChecks, intervals, timers, probes, nextPid,
                   breakers, consecutiveFailures, calls, nextCall, announced, stopped>>
    /\ bus' = <<>>
    /\ UNCHANGED nonEngineVars

\* The engine as constructed, over a store whose table endpoints holds rows.
EngineOver(rows) ==
    /\ now = 0
    /\ dbEndpoints = rows
    /\ dbChecks = {}
    /\ intervals = [e \in EndpointIds |-> 0]
    /\ timers = {}
    /\ probes = {}
    /\ nextPid = 1
    /\ breakers = [e \in EndpointIds |-> NoBreaker]
    /\ consecutiveFailures = [e \in EndpointIds |-> 0]
    /\ calls = {}
    /\ nextCall = 1
    /\ bus = <<>>
    /\ announced = {}
    /\ stopped = FALSE

\* The engine as constructed, over a store in which endpoint e is enabled when
\* enabled[e].
EngineInit(enabled) ==
    EngineOver([e \in EndpointIds |->
                  [exists |-> TRUE, enabled |-> enabled[e],
                   checkInterval |-> CheckIntervalSec, timeout |-> DefaultTimeout,
                   name |-> StoredNames[e]]])

BreakerIdle ==
    /\ cb = NoBreaker
    /\ cbPending = 0
    /\ cbLast = <<>>
    /\ cbSamples = <<>>
    /\ cbHooks = <<>>
    /\ endpointUp = FALSE

\* websocket-server.ts:21-28, the server with no session
BusInit ==
    /\ sockets = {}
    /\ otherSockets = 0
    /\ joined = [s \in SessionIds |-> {}]
    /\ clientRooms = [s \in SessionIds |-> NoRooms]
    /\ inbox = [s \in SessionIds |-> <<>>]
    /\ nextEvent = 1
    /\ lastConnect = "none"
    /\ wsNow = 0
    /\ clientLastActivity = [s \in SessionIds |-> NoActivity]
    /\ sweeper = [at |-> 0, cut |-> {}]
    /\ fullUpdates = [s \in SessionIds |-> NoFullUpdate]

\* python-api.ts:262-264, a retention job as its constructor leaves it, over
\* a store whose table uptime_checks holds rows
RetentionOver(rows, config) ==
    /\ cleanupConfig = config
    /\ lastVacuum = "none"
    /\ scheduler = NewScheduler
    /\ cleanupNow = CleanupStart
    /\ raw = rows
    /\ hourly = {}
    /\ daily = {}
    /\ isRunning = FALSE
    /\ jobs = {}
    /\ nextJob = 1
    /\ lastRun = "none"
    /\ snap = NoSnap

\* python-api.ts:571, the exported job, constructed with defaultConfig
RetentionInit(rows) == RetentionOver(rows, defaultConfig)

\* python-api.ts:125, the store of the rate limiter, empty
LimiterInit ==
    /\ rlNow = 0
    /\ rlStore = [k \in ClientKeys |-> NoRecord]
    /\ rlLast = NoAnswer
    /\ rlSeen = [l \in Limiters |-> [k \in ClientKeys |-> NoRecord]]

\* No request of the endpoints API under way, none answered.
ApiIdle ==
    /\ apiCalls = {}
    /\ apiLast = NoResponse

\* No statistics read yet.
StatsIdle ==
    /\ statsRow = [successful |-> 0, total |-> 0]
    /\ statsOut = NotReported

Init ==
    /\ EngineInit([e \in EndpointIds |-> TRUE])
    /\ BreakerIdle /\ BusInit /\ RetentionInit({}) /\ LimiterInit /\ ApiIdle /\ StatsIdle

\* The engine with its controls: every operation, the store answering every
\* read, a probe's insert failing or not.
Next ==
    \/ nextCall <= MaxCalls /\ StartMonitoring
    \/ StopMonitoring
    \/ \E c \in calls, ok \in BOOLEAN : StartQuery(c, ok)
    \/ \E c \in calls : nextPid + Cardinality(c.result) <= MaxProbes + 1 /\ StartResume(c)
    \/ \E c \in calls : RestartBegin(c)
    \/ \E c \in calls, ok \in BOOLEAN : RestartQuery(c, ok)
    \/ \E c \in calls : nextPid <= MaxProbes /\ RestartResume(c)
    \/ \E e \in EndpointIds, enabled \in BOOLEAN : nextCall <= MaxCalls /\ ApiPut(e, enabled)
    \/ \E e \in EndpointIds : nextCall <= MaxCalls /\ ApiDelete(e)
    \/ \E tm \in timers : nextPid <= MaxProbes /\ TimerTick(tm)
    \/ \E p \in probes, outcome \in {"ok", "status"} : FetchDone(p, outcome)
    \/ \E p \in probes, ok \in BOOLEAN : StoreDone(p, ok)
    \/ \E p \in probes : StatsEndpoint(p, TRUE)
    \/ \E p \in probes : StatsChecks(p, TRUE)

Spec == Init /\ [][Next]_vars

\* One endpoint's loop probing: the engine is started, its timer ticks, time
\* passes, every await of a probe settles either way.
ProbeNext ==
    \/ nextCall <= 1 /\ StartMonitoring
    \/ \E c \in calls : StartQuery(c, TRUE)
    \/ \E c \in calls : StartResume(c)
    \/ \E tm \in timers :
          nextPid <= MaxTicks /\ Cardinality(probes) < MaxInFlight /\ TimerTick(tm)
    \/ \E p \in probes, outcome \in {"ok", "status", "timeout"} : FetchDone(p, outcome)
    \/ \E p \in probes, ok \in BOOLEAN : StoreDone(p, ok)
    \/ \E p \in probes, ok \in BOOLEAN : StatsEndpoint(p, ok)
    \/ \E p \in probes, ok \in BOOLEAN : StatsChecks(p, ok)
    \/ now < MaxClock /\ Advance

\* As Init, with endpoint 1 the only one enabled.
ProbeInit ==
    /\ EngineInit([e \in EndpointIds |-> e = 1])
    /\ BreakerIdle /\ BusInit /\ RetentionInit({}) /\ LimiterInit /\ ApiIdle /\ StatsIdle

ProbeSpec == ProbeInit /\ [][ProbeNext]_vars

\* One endpoint's loop, one probe at a time, its fetch settling in every way.
ClassifyNext ==
    \/ nextCall <= 1 /\ StartMonitoring
    \/ \E c \in calls : StartQuery(c, TRUE)
    \/ \E c \in calls : StartResume(c)
    \/ \E tm \in timers : nextPid <= MaxTicks /\ probes = {} /\ TimerTick(tm)
    \/ \E p \in probes, outcome \in FetchOutcomes : FetchDone(p, outcome)
    \/ \E p \in probes, ok \in BOOLEAN : StoreDone(p, ok)
    \/ \E p \in probes : StatsEndpoint(p, TRUE)
    \/ \E p \in probes : StatsChecks(p, TRUE)
    \/ now < MaxClock /\ Advance

ClassifySpec == ProbeInit /\ [][ClassifyNext]_vars

\* One endpoint's loop, one probe at a time, while the engine is stopped,
\* started and the endpoint's loop restarted; every read and insert succeeds.
NoticeNext ==
    \/ nextCall <= MaxCalls /\ StartMonitoring
    \/ StopMonitoring
    \/ \E c \in calls : StartQuery(c, TRUE)
    \/ \E c \in calls : nextPid <= MaxTicks /\ probes = {} /\ StartResume(c)
    \/ nextCall <= MaxCalls /\ ApiPut(1, TRUE)
    \/ \E c \in calls : RestartBegin(c)
    \/ \E c \in calls : RestartQuery(c, TRUE)
    \/ \E c \in calls : nextPid <= MaxTicks /\ probes = {} /\ RestartResume(c)
    \/ \E tm \in timers : nextPid <= MaxTicks /\ probes = {} /\ TimerTick(tm)
    \/ \E p \in probes, outcome \in {"ok", "status"} : FetchDone(p, outcome)
    \/ \E p \in probes : StoreDone(p, TRUE)
    \/ \E p \in probes : StatsEndpoint(p, TRUE)
    \/ \E p \in probes : StatsChecks(p, TRUE)

NoticeSpec == ProbeInit /\ [][NoticeNext]_vars

\* ------------------------------------------------- one breaker, any caller
\* A breaker called by any number of callers at any times: execute is entered,
\* the operations it called settle later, in any order.

\* The last two calls, the newest last.
Remember(what) == IF cbLast = <<>> THEN <<what>> ELSE <<cbLast[Len(cbLast)], what>>

\* The recorded outcomes whose timestamps lie inside monitoringPeriod at time t.
InWindow(samples, t) ==
    SelectSeq(samples, LAMBDA x : x.ts > t - cb.config.monitoringPeriod)

Failed(samples) == SelectSeq(samples, LAMBDA x : x.failed)

\* circuit-breaker.ts:29-42: execute is entered and throws, or calls operation()
Execute ==
    LET r == executeEntry(cb, now)
    IN  /\ cb' = r.b
        /\ cbPending' = IF r.admitted THEN cbPending + 1 ELSE cbPending
        /\ cbLast' = Remember(IF r.admitted THEN "admitted" ELSE "rejected")
        /\ cbSamples' = InWindow(cbSamples, now)
        /\ cbHooks' = r.hooks
        /\ UNCHANGED endpointUp
        /\ UNCHANGED nonBreakerVars

\* circuit-breaker.ts:42-48: an operation settles, execute records the outcome
OperationSettles(failed) ==
    /\ cbPending > 0
    /\ cb' = IF failed THEN onFailure(cb, now).b ELSE onSuccess(cb, now).b
    /\ cbPending' = cbPending - 1
    /\ cbLast' = Remember(IF failed THEN "failure" ELSE "success")
    /\ cbSamples' = Append(cbSamples, [ts |-> now, failed |-> failed])
    /\ cbHooks' = IF failed THEN onFailure(cb, now).hooks ELSE onSuccess(cb, now).hooks
    /\ UNCHANGED endpointUp
    /\ UNCHANGED nonBreakerVars

TimePasses ==
    /\ now' = now + 1
    /\ UNCHANGED <<dbEndpoints, dbChecks, intervals, timers, probes, nextPid,
                   breakers, consecutiveFailures, calls, nextCall, bus, announced,
                   stopped>>
    /\ UNCHANGED nonEngineVars

BreakerInit ==
    /\ EngineInit([e \in EndpointIds |-> TRUE])
    /\ BusInit /\ RetentionInit({}) /\ LimiterInit /\ ApiIdle /\ StatsIdle
    /\ cb \in {NewBreaker([BreakerConfig(CheckIntervalSec) EXCEPT !.minimumRequests = m]) :
                 m \in 1..MinimumRequests}
    /\ cbPending = 0
    /\ cbLast = <<>>
    /\ cbSamples = <<>>
    /\ cbHooks = <<>>
    /\ endpointUp = FALSE

BreakerNext ==
    \/ cbPending < MaxPending /\ Execute
    \/ \E failed \in BOOLEAN : cb.requestCount < MaxRequests /\ OperationSettles(failed)
    \/ now < MaxNow /\ TimePasses

BreakerSpec == BreakerInit /\ [][BreakerNext]_vars

\* circuit-breaker.ts:117-125 with 149-151: the breaker is reset through the
\* factory; the outcomes recorded before it no longer count
Reset ==
    /\ cb' = reset(cb).b
    /\ cbHooks' = reset(cb).hooks
    /\ cbLast' = Remember("reset")
    /\ cbSamples' = <<>>
    /\ UNCHANGED <<cbPending, endpointUp>>
    /\ UNCHANGED nonBreakerVars

\* The breaker with every one of its operations, reset included.
HookNext ==
    \/ cbPending < MaxPending /\ Execute
    \/ \E failed \in BOOLEAN : cb.requestCount < MaxRequests /\ OperationSettles(failed)
    \/ cb # reset(cb).b /\ Reset
    \/ now < MaxNow /\ TimePasses

HookSpec == BreakerInit /\ [][HookNext]_vars

\* ------------------------------------------------------- the event bus
\* io.sockets.sockets.size
Size == Cardinality(sockets) + otherSockets

\* websocket-server.ts:64, the test of the capacity middleware
atCapacityOffByOne(size) == size > MAX_CLIENTS

atCapacity(size) == size >= MAX_CLIENTS

\* An event as a session receives it; seq is 0 for a notice emitted to one
\* socket only.
Event(seq, event, endpointId) ==
    [seq |-> seq, event |-> event, endpointId |-> endpointId, message |-> <<>>]

\* socket.emit('systemStatus', {message, type}): a notice for one socket
Notice(message, type) ==
    [seq |-> 0, event |-> "systemStatus", endpointId |-> 0, message |-> <<message, type>>]

\* io.to(room).emit(ev): every established session in the room is sent ev once
toRoomEmit(boxes, room, ev) ==
    [s \in SessionIds |->
        IF s \in sockets /\ room \in joined[s] THEN Append(boxes[s], ev) ELSE boxes[s]]

\* deliver emitting every event to the room global alone
deliverGlobalOnly(boxes, ev) == toRoomEmit(boxes, GlobalRoom, ev)

\* websocket-server.ts:195-229: broadcastUptimeUpdate and broadcastNewCheck emit
\* to the room global and then to the endpoint's room, broadcastSystemStatus to
\* the room global
deliver(boxes, ev) ==
    IF ev.event = "systemStatus"
    THEN toRoomEmit(boxes, GlobalRoom, ev)
    ELSE toRoomEmit(toRoomEmit(boxes, GlobalRoom, ev), EndpointRoom(ev.endpointId), ev)

\* websocket-server.ts:63-84 and 178-181: a connection attempt.  socket.io runs
\* the middleware and, when it calls next() without an error, adds the socket
\* to io.sockets.sockets and calls the connection handler before the process
\* turns to the next connection's packets, so the test and the registration
\* are one step.
Connect(s) ==
    /\ s \notin sockets
    /\ IF atCapacity(Size)
       THEN /\ lastConnect' = "rejected"
            /\ UNCHANGED <<sockets, clientRooms, inbox, clientLastActivity>>
       ELSE /\ lastConnect' = "accepted"
            /\ clientLastActivity' = [clientLastActivity EXCEPT ![s] = wsNow]
            /\ sockets' = sockets \cup {s}
            /\ clientRooms' = [clientRooms EXCEPT ![s] = {}]
            /\ inbox' = [inbox EXCEPT ![s] =
                            <<Notice("Connected to real-time updates", "info")>>]
    /\ UNCHANGED <<otherSockets, joined, nextEvent, wsNow, sweeper>>
    /\ UNCHANGED fullUpdates
    /\ UNCHANGED nonBusVars

\* The connection attempt of a session the model does not name.
ConnectOther ==
    /\ IF atCapacity(Size)
       THEN lastConnect' = "rejected" /\ UNCHANGED otherSockets
       ELSE lastConnect' = "accepted" /\ otherSockets' = otherSockets + 1
    /\ UNCHANGED <<sockets, joined, clientRooms, inbox, nextEvent, wsNow,
                   clientLastActivity, sweeper>>
    /\ UNCHANGED fullUpdates
    /\ UNCHANGED nonBusVars

\* websocket-server.ts:169-176: a session ends; socket.io takes the socket out
\* of io.sockets.sockets and of its rooms, the handler drops its map entries
Disconnect(s) ==
    /\ s \in sockets
    /\ sockets' = sockets \ {s}
    /\ joined' = [joined EXCEPT ![s] = {}]
    /\ clientRooms' = [clientRooms EXCEPT ![s] = NoRooms]
    /\ inbox' = [inbox EXCEPT ![s] = <<>>]
    /\ clientLastActivity' = [clientLastActivity EXCEPT ![s] = NoActivity]
    /\ UNCHANGED <<otherSockets, nextEvent, lastConnect, wsNow, sweeper>>
    /\ UNCHANGED fullUpdates
    /\ UNCHANGED nonBusVars

DisconnectOther ==
    /\ otherSockets > 0
    /\ otherSockets' = otherSockets - 1
    /\ UNCHANGED <<sockets, joined, clientRooms, inbox, nextEvent, lastConnect, wsNow,
                   clientLastActivity, sweeper>>
    /\ UNCHANGED fullUpdates
    /\ UNCHANGED nonBusVars

\* clientRooms.get(socket.id) || new Set()
RoomsOf(s) == IF clientRooms[s] = NoRooms THEN {} ELSE clientRooms[s]

\* the subscribe handler letting a session at the limit join one more room
atRoomLimitOffByOne(rooms) == Cardinality(rooms) > MAX_ROOMS_PER_CLIENT

\* websocket-server.ts:89, the test of the subscribe handler
atRoomLimit(rooms) == Cardinality(rooms) >= MAX_ROOMS_PER_CLIENT

\* websocket-server.ts:81-84 and 86-111: the middleware notes the activity,
\* then the subscribe handler runs
Subscribe(s, room) ==
    /\ s \in sockets
    /\ IF atRoomLimit(RoomsOf(s))
       THEN /\ inbox' = [inbox EXCEPT ![s] =
                            Append(@, Notice("Subscription limit reached", "error"))]
            /\ UNCHANGED <<joined, clientRooms>>
       ELSE /\ joined' = [joined EXCEPT ![s] = @ \cup {room}]
            /\ clientRooms' = [clientRooms EXCEPT ![s] = RoomsOf(s) \cup {room}]
            /\ UNCHANGED inbox
    /\ clientLastActivity' = [clientLastActivity EXCEPT ![s] = wsNow]
    /\ UNCHANGED <<sockets, otherSockets, nextEvent, lastConnect, wsNow, sweeper>>
    /\ UNCHANGED fullUpdates
    /\ UNCHANGED nonBusVars

\* websocket-server.ts:81-84 and 113-130
Unsubscribe(s, room) ==
    /\ s \in sockets
    /\ joined' = [joined EXCEPT ![s] = @ \ {room}]
    /\ clientRooms' = [clientRooms EXCEPT ![s] = RoomsOf(s) \ {room}]
    /\ clientLastActivity' = [clientLastActivity EXCEPT ![s] = wsNow]
    /\ UNCHANGED <<sockets, otherSockets, inbox, nextEvent, lastConnect, wsNow, sweeper>>
    /\ UNCHANGED fullUpdates
    /\ UNCHANGED nonBusVars

\* websocket-server.ts:195-229: the engine publishes an event
Broadcast(event, e) ==
    /\ inbox' = deliver(inbox, Event(nextEvent, event, e))
    /\ nextEvent' = nextEvent + 1
    /\ UNCHANGED <<sockets, otherSockets, joined, clientRooms, lastConnect, wsNow,
                   clientLastActivity, sweeper>>
    /\ UNCHANGED fullUpdates
    /\ UNCHANGED nonBusVars

\* Sessions subscribing while events are published.
BusNext ==
    \/ \E s \in SessionIds : Connect(s)
    \/ \E s \in SessionIds : Disconnect(s)
    \/ \E s \in SessionIds, room \in Rooms : Subscribe(s, room)
    \/ \E s \in SessionIds, room \in Rooms : Unsubscribe(s, room)
    \/ \E event \in {"newCheck", "uptimeUpdate", "systemStatus"}, e \in EndpointIds :
          nextEvent <= MaxEvents /\ Broadcast(event, e)

BusSpec == Init /\ [][BusNext]_vars

\* ----------------------------------------------------- the idle sweeper
\* the sweeper taking a session whose activity is exactly CLIENT_TIMEOUT old
isIdleAtTimeout(age) == age * WsTickMs >= CLIENT_TIMEOUT

\* websocket-server.ts:33, the test of the sweeper on now - lastActivity
isIdle(age) == age * WsTickMs > CLIENT_TIMEOUT

\* the sessions with an entry in clientLastActivity the sweeper finds idle
IdleSessions ==
    {s \in SessionIds : clientLastActivity[s] # NoActivity
                            /\ isIdle(wsNow - clientLastActivity[s])}

\* the timer of the sweeper is due: a multiple of its period after the module
\* was loaded, and it has not run at this instant
SweepDue == wsNow > 0 /\ (wsNow * WsTickMs) % SweepPeriodMs = 0 /\ sweeper.at # wsNow

\* websocket-server.ts:30-43 with the disconnect handler 169-176: the sweeper
\* runs; socket.disconnect(true) takes an idle session out of
\* io.sockets.sockets and of its rooms
SweepIdle ==
    /\ SweepDue
    /\ sockets' = sockets \ IdleSessions
    /\ joined' = [s \in SessionIds |-> IF s \in IdleSessions THEN {} ELSE joined[s]]
    /\ inbox' = [s \in SessionIds |-> IF s \in IdleSessions THEN <<>> ELSE inbox[s]]
    /\ clientRooms' = [s \in SessionIds |->
                          IF s \in IdleSessions THEN NoRooms ELSE clientRooms[s]]
    /\ clientLastActivity' = [s \in SessionIds |->
                                IF s \in IdleSessions THEN NoActivity
                                ELSE clientLastActivity[s]]
    /\ sweeper' = [at |-> wsNow, cut |-> IdleSessions \cap sockets]
    /\ UNCHANGED <<otherSockets, nextEvent, lastConnect, wsNow>>
    /\ UNCHANGED fullUpdates
    /\ UNCHANGED nonBusVars

\* websocket-server.ts:81-84: a packet with an event no handler listens to
OtherEvent(s) ==
    /\ s \in sockets
    /\ clientLastActivity' = [clientLastActivity EXCEPT ![s] = wsNow]
    /\ UNCHANGED <<sockets, otherSockets, joined, clientRooms, inbox, nextEvent,
                   lastConnect, wsNow, sweeper>>
    /\ UNCHANGED fullUpdates
    /\ UNCHANGED nonBusVars

\* Half a minute passes; a timer that is due runs first.
WsTick ==
    /\ ~SweepDue
    /\ wsNow' = wsNow + 1
    /\ UNCHANGED <<sockets, otherSockets, joined, clientRooms, inbox, nextEvent,
                   lastConnect, clientLastActivity, sweeper>>
    /\ UNCHANGED fullUpdates
    /\ UNCHANGED nonBusVars

\* Sessions coming, going, sending and falling silent while the sweeper runs.
SweeperNext ==
    \/ \E s \in SessionIds : Connect(s)
    \/ \E s \in SessionIds : Disconnect(s)
    \/ \E s \in SessionIds : Subscribe(s, GlobalRoom)
    \/ \E s \in SessionIds : Unsubscribe(s, GlobalRoom)
    \/ \E s \in SessionIds : OtherEvent(s)
    \/ SweepIdle
    \/ wsNow < MaxWsNow /\ WsTick

SweeperSpec == Init /\ [][SweeperNext]_vars

\* Sessions coming and going.
CapacityNext ==
    \/ \E s \in SessionIds : Connect(s)
    \/ \E s \in SessionIds : Disconnect(s)
    \/ ConnectOther
    \/ DisconnectOther

CapacitySpec == Init /\ [][CapacityNext]_vars

\* One session subscribing to and unsubscribing from any rooms it names.
RoomsNext ==
    \/ Connect(1)
    \/ Disconnect(1)
    \/ \E room \in RequestableRooms : Len(inbox[1]) < MaxNotices /\ Subscribe(1, room)
    \/ \E room \in RequestableRooms : Unsubscribe(1, room)

RoomsSpec == Init /\ [][RoomsNext]_vars

\* ------------------------------------------------------- the retention job
\* The rows table uptime_checks may hold when the job first runs: around the
\* instant detailRetentionDays before CleanupStart, one of them stored after
\* its endpoint was renamed; in the running hour; older than
\* hourlyRetentionDays.
Cutoff0 == CleanupStart - DetailRetentionDays * TicksPerDay

RawRow(id, endpointId, name, ts, status) ==
    [id |-> id, endpointId |-> endpointId, name |-> name, ts |-> ts, status |-> status]

CandidateRows ==
    { RawRow(1, 1, "a", Cutoff0 - 1, "UP"),
      RawRow(2, 1, "a", Cutoff0, "DOWN"),
      RawRow(3, 1, "b", Cutoff0, "UP"),
      RawRow(4, 2, "c", Cutoff0 - 2, "UP"),
      RawRow(5, 1, "a", CleanupStart - 1, "DOWN"),
      RawRow(6, 2, "c", CleanupStart - (HourlyRetentionDays + 1) * TicksPerDay, "UP") }

\* ROUND(successful::numeric / total * 100, 2), in hundredths of a percent
RoundedPercentage(successful, total) ==
    (2 * 10000 * successful + total) \div (2 * total)

\* python-api.ts:334-347 and 397-411: the SELECT ... GROUP BY endpoint_id,
\* endpoint_name, bucket over the rows of the last `days` days that lie before
\* the running bucket; DATE_TRUNC gives the buckets, width ticks each
Aggregates(rows, t, days, width) ==
    LET src  == {r \in rows : r.ts >= t - days * TicksPerDay /\ (r.ts \div width) < (t \div width)}
        keys == {<<r.endpointId, r.name, (r.ts \div width)>> : r \in src}
        of(k) == {r \in src : <<r.endpointId, r.name, (r.ts \div width)>> = k}
    IN  { [ endpointId |-> k[1], name |-> k[2], bucket |-> k[3],
            total      |-> Cardinality(of(k)),
            successful |-> Cardinality({r \in of(k) : r.status = "UP"}),
            failed     |-> Cardinality({r \in of(k) : r.status = "DOWN"}),
            percentage |-> RoundedPercentage(
                               Cardinality({r \in of(k) : r.status = "UP"}),
                               Cardinality(of(k))) ] : k \in keys }

SameKey(a, b) == a.endpointId = b.endpointId /\ a.bucket = b.bucket

\* python-api.ts:329-355 and 391-420: INSERT ... ON CONFLICT (endpoint_id,
\* bucket) DO UPDATE SET <the counts>.  The store refuses a statement that
\* proposes two rows of one key ("ON CONFLICT DO UPDATE command cannot affect
\* row a second time"); an existing row keeps its endpoint_name.
Upsert(table, proposed) ==
    IF \E a, b \in proposed : a # b /\ SameKey(a, b)
    THEN [ok |-> FALSE, table |-> table]
    ELSE [ok |-> TRUE,
          table |->
            {IF \E g \in proposed : SameKey(g, e)
             THEN LET g == CHOOSE x \in proposed : SameKey(x, e)
                  IN  [g EXCEPT !.name = e.name]
             ELSE e : e \in table}
            \cup {g \in proposed : \A e \in table : ~SameKey(g, e)}]

\* run without its test of isRunning
TriggerUnguarded(source) ==
    /\ isRunning' = TRUE
    /\ jobs' = jobs \cup {[jid |-> nextJob, source |-> source, pc |-> "hourly",
                           cutoff |-> 0]}
    /\ nextJob' = nextJob + 1
    /\ UNCHANGED <<cleanupNow, raw, hourly, daily, lastRun, snap>>
    /\ UNCHANGED <<cleanupConfig, lastVacuum, scheduler>>
    /\ UNCHANGED nonRetentionVars

\* run without its test of config.deleteEnabled
TriggerSwitchIgnored(source) ==
    /\ IF isRunning
       THEN lastRun' = "skipped" /\ UNCHANGED <<isRunning, jobs, nextJob>>
       ELSE /\ isRunning' = TRUE
            /\ jobs' = jobs \cup {[jid |-> nextJob, source |-> source,
                                   pc |-> "hourly", cutoff |-> 0]}
            /\ nextJob' = nextJob + 1
            /\ UNCHANGED lastRun
    /\ UNCHANGED <<cleanupNow, raw, hourly, daily, snap>>
    /\ UNCHANGED <<cleanupConfig, lastVacuum, scheduler>>
    /\ UNCHANGED nonRetentionVars

\* python-api.ts:266-279: run up to its first await
run(source) ==
    /\ IF isRunning
       THEN lastRun' = "skipped" /\ UNCHANGED <<isRunning, jobs, nextJob>>
       ELSE IF ~cleanupConfig.deleteEnabled
       THEN lastRun' = "disabled" /\ UNCHANGED <<isRunning, jobs, nextJob>>
       ELSE /\ isRunning' = TRUE
            /\ jobs' = jobs \cup {[jid |-> nextJob, source |-> source,
                                   pc |-> "hourly", cutoff |-> 0]}
            /\ nextJob' = nextJob + 1
            /\ UNCHANGED lastRun
    /\ UNCHANGED <<cleanupNow, raw, hourly, daily, snap>>
    /\ UNCHANGED <<cleanupConfig, lastVacuum>>
    /\ UNCHANGED nonRetentionVars

\* python-api.ts:266-279 with scheduler.ts:39-51 and the cleanup route's POST:
\* run is called, by a timer of the scheduler, by triggerCleanup or by the
\* route, at any time
Trigger(source) == run(source) /\ UNCHANGED scheduler

\* a step threw, and run left without its finally block
ThrowGuardKept(j) ==
    /\ jobs' = jobs \ {j}
    /\ isRunning' = isRunning
    /\ lastRun' = "failed"

\* python-api.ts:296-301: a step threw; finally clears isRunning
Throw(j) ==
    /\ jobs' = jobs \ {j}
    /\ isRunning' = FALSE
    /\ lastRun' = "failed"

StepTo(j, pc) == jobs' = (jobs \ {j}) \cup {[j EXCEPT !.pc = pc]}

\* python-api.ts:304-362: createHourlyAggregates (ok: the store is reachable)
HourlyRollup(j, ok) ==
    /\ j \in jobs /\ j.pc = "hourly"
    /\ LET u == Upsert(hourly, Aggregates(raw, cleanupNow, HourlyRetentionDays, TicksPerHour))
       IN  IF ok /\ u.ok
           THEN hourly' = u.table /\ StepTo(j, "daily") /\ UNCHANGED <<isRunning, lastRun>>
           ELSE Throw(j) /\ UNCHANGED hourly
    /\ UNCHANGED <<cleanupNow, raw, daily, nextJob, snap>>
    /\ UNCHANGED <<cleanupConfig, lastVacuum, scheduler>>
    /\ UNCHANGED nonRetentionVars

\* python-api.ts:364-426: createDailyAggregates; run goes on to
\* deleteOldDetailedData, which fixes its cutoff date (430-436)
DailyRollup(j, ok) ==
    /\ j \in jobs /\ j.pc = "daily"
    /\ LET u == Upsert(daily, Aggregates(raw, cleanupNow, DailyRetentionDays, TicksPerDay))
       IN  IF ok /\ u.ok
           THEN /\ daily' = u.table
                /\ jobs' = (jobs \ {j}) \cup
                      {[j EXCEPT !.pc = "delete",
                                 !.cutoff = cleanupNow - DetailRetentionDays * TicksPerDay]}
                /\ UNCHANGED <<isRunning, lastRun>>
           ELSE Throw(j) /\ UNCHANGED daily
    /\ UNCHANGED <<cleanupNow, raw, hourly, nextJob, snap>>
    /\ UNCHANGED <<cleanupConfig, lastVacuum, scheduler>>
    /\ UNCHANGED nonRetentionVars
\* the DELETE of deleteOldDetailedData without its WHERE timestamp < cutoff
DeleteBatchAnyRows(j, ok, batch) ==
    /\ j \in jobs /\ j.pc = "delete"
    /\ Cardinality(batch) = IF Cardinality(raw) < BatchSize
                            THEN Cardinality(raw) ELSE BatchSize
    /\ IF ok
       THEN /\ raw' = raw \ batch
            /\ StepTo(j, IF batch = {} THEN "aggHourly" ELSE "delete")
            /\ UNCHANGED <<isRunning, lastRun>>
       ELSE Throw(j) /\ UNCHANGED raw
    /\ UNCHANGED <<cleanupNow, hourly, daily, nextJob, snap>>
    /\ UNCHANGED <<cleanupConfig, lastVacuum, scheduler>>
    /\ UNCHANGED nonRetentionVars

\* python-api.ts:439-461: one DELETE ... WHERE id IN (SELECT id ... WHERE
\* timestamp < cutoff LIMIT batchSize) settles; the rows it took are any
\* batchSize of the old ones.  After a batch that deleted rows the loop pauses
\* and deletes again; after one that deleted none run goes on.
DeleteBatch(j, ok, batch) ==
    /\ j \in jobs /\ j.pc = "delete"
    /\ LET old == {r \in raw : r.ts < j.cutoff}
       IN  /\ batch \subseteq old
           /\ Cardinality(batch) = IF Cardinality(old) < BatchSize
                                   THEN Cardinality(old) ELSE BatchSize
    /\ IF ok
       THEN /\ raw' = raw \ batch
            /\ StepTo(j, IF batch = {} THEN "aggHourly" ELSE "delete")
            /\ UNCHANGED <<isRunning, lastRun>>
       ELSE Throw(j) /\ UNCHANGED raw
    /\ UNCHANGED <<cleanupNow, hourly, daily, nextJob, snap>>
    /\ UNCHANGED <<cleanupConfig, lastVacuum, scheduler>>
    /\ UNCHANGED nonRetentionVars

\* python-api.ts:473-513: deleteOldAggregatedData, its two DELETE statements
DeleteAggregates(j, ok) ==
    /\ j \in jobs /\ j.pc \in {"aggHourly", "aggDaily"}
    /\ IF ~ok
       THEN Throw(j) /\ UNCHANGED <<hourly, daily>>
       ELSE /\ UNCHANGED <<isRunning, lastRun>>
            /\ IF j.pc = "aggHourly"
               THEN /\ hourly' = {e \in hourly : ~(e.bucket * TicksPerHour <
                                      cleanupNow - HourlyRetentionDays * TicksPerDay)}
                    /\ UNCHANGED daily
                    /\ StepTo(j, "aggDaily")
               ELSE /\ daily' = {e \in daily : ~(e.bucket * TicksPerDay <
                                      cleanupNow - DailyRetentionDays * TicksPerDay)}
                    /\ UNCHANGED hourly
                    /\ StepTo(j, "vacuum")
    /\ UNCHANGED <<cleanupNow, raw, nextJob, snap>>
    /\ UNCHANGED <<cleanupConfig, lastVacuum, scheduler>>
    /\ UNCHANGED nonRetentionVars

\* python-api.ts:288-301 and 516-530: vacuumTables settles (ok: its VACUUM
\* statements succeeded; a failure is caught and logged inside it) and run
\* returns; finally clears isRunning
Vacuum(j, ok) ==
    /\ j \in jobs /\ j.pc = "vacuum"
    /\ lastVacuum' = IF ok THEN "completed" ELSE "failed"
    /\ jobs' = jobs \ {j}
    /\ isRunning' = FALSE
    /\ lastRun' = "completed"
    /\ snap' = IF snap.taken THEN snap
               ELSE [taken |-> TRUE, raw |-> raw, hourly |-> hourly, daily |-> daily]
    /\ UNCHANGED <<cleanupNow, raw, hourly, daily, nextJob>>
    /\ UNCHANGED <<cleanupConfig, scheduler>>
    /\ UNCHANGED nonRetentionVars

\* Half an hour passes.
CleanupTick ==
    /\ cleanupNow' = cleanupNow + 1
    /\ UNCHANGED <<raw, hourly, daily, isRunning, jobs, nextJob, lastRun, snap>>
    /\ UNCHANGED <<cleanupConfig, lastVacuum, scheduler>>
    /\ UNCHANGED nonRetentionVars

\* The retention job over a store no probe writes to meanwhile.
RetentionNext ==
    \/ \E source \in {"timer", "manual", "route"} :
          nextJob <= MaxTriggers /\ Trigger(source)
    \/ \E j \in jobs, ok \in BOOLEAN : HourlyRollup(j, ok)
    \/ \E j \in jobs, ok \in BOOLEAN : DailyRollup(j, ok)
    \/ \E j \in jobs, ok \in BOOLEAN, batch \in SUBSET raw : DeleteBatch(j, ok, batch)
    \/ \E j \in jobs, ok \in BOOLEAN : DeleteAggregates(j, ok)
    \/ \E j \in jobs, ok \in BOOLEAN : Vacuum(j, ok)
    \/ cleanupNow < CleanupStart + MaxCleanupTicks /\ CleanupTick

RetentionBegin ==
    /\ EngineInit([e \in EndpointIds |-> TRUE])
    /\ BreakerIdle /\ BusInit /\ LimiterInit /\ ApiIdle /\ StatsIdle
    /\ \E rows \in SUBSET CandidateRows, deleteEnabled \in BOOLEAN :
          RetentionOver(rows, [deleteEnabled |-> deleteEnabled])

RetentionSpec == RetentionBegin /\ [][RetentionNext]_vars

\* the ids of the rows probes insert while the job runs
InsertedIds == (Cardinality(CandidateRows) + 1)..(Cardinality(CandidateRows) + MaxInserts)

\* monitoring.ts:241-258 with 137-147 and 209-219: a probe stores its check,
\* whose timestamp is the instant the probe built it
InsertCheck(status) ==
    /\ \E id \in InsertedIds :
          /\ \A r \in raw : r.id # id
          /\ \A other \in InsertedIds : other < id => \E r \in raw : r.id = other
          /\ raw' = raw \cup {RawRow(id, 1, "a", cleanupNow, status)}
    /\ UNCHANGED <<cleanupNow, hourly, daily, isRunning, jobs, nextJob, lastRun, snap>>
    /\ UNCHANGED <<cleanupConfig, lastVacuum, scheduler>>
    /\ UNCHANGED nonRetentionVars

\* one DELETE of deleteOldDetailedData settles
DeleteSettles == \E j \in jobs, ok \in BOOLEAN, batch \in SUBSET raw : DeleteBatch(j, ok, batch)

\* The retention job over a store probes insert into meanwhile.
DetailNext ==
    \/ nextJob <= 1 /\ Trigger("timer")
    \/ \E j \in jobs, ok \in BOOLEAN : HourlyRollup(j, ok)
    \/ \E j \in jobs, ok \in BOOLEAN : DailyRollup(j, ok)
    \/ DeleteSettles
    \/ \E j \in jobs, ok \in BOOLEAN : DeleteAggregates(j, ok)
    \/ \E j \in jobs, ok \in BOOLEAN : Vacuum(j, ok)
    \/ \E status \in {"UP", "DOWN"} : InsertCheck(status)
    \/ cleanupNow < CleanupStart + MaxCleanupTicks /\ CleanupTick

DetailSpec == RetentionBegin /\ [][DetailNext]_vars /\ WF_vars(DeleteSettles)

\* ------------------------------------------------------- the scheduler
\* what a call of start or stop leaves alone
RetentionUntouched ==
    /\ UNCHANGED <<cleanupNow, raw, hourly, daily, isRunning, jobs, nextJob, lastRun, snap>>
    /\ UNCHANGED <<cleanupConfig, lastVacuum>>
    /\ UNCHANGED nonRetentionVars

\* scheduler.ts:7-28
SchedulerStart ==
    /\ scheduler' =
          IF scheduler.isRunning
          THEN [scheduler EXCEPT !.calls = @ + 1]
          ELSE [scheduler EXCEPT !.isRunning = TRUE,
                                 !.timeouts = @ + 1,
                                 !.cleanupInterval = TRUE,
                                 !.intervalTimers = @ + 1,
                                 !.calls = @ + 1]
    /\ RetentionUntouched

\* scheduler.ts:30-37
SchedulerStop ==
    /\ scheduler' =
          IF scheduler.cleanupInterval
          THEN [scheduler EXCEPT !.isRunning = FALSE, !.cleanupInterval = FALSE,
                                 !.intervalTimers = @ - 1, !.calls = @ + 1]
          ELSE [scheduler EXCEPT !.isRunning = FALSE, !.calls = @ + 1]
    /\ RetentionUntouched

\* scheduler.ts:16-18 and 39-46: a timer set 60 seconds ago fires, runCleanup
\* calls run
FirstRunFires ==
    /\ scheduler.timeouts > 0
    /\ scheduler' = [scheduler EXCEPT !.timeouts = @ - 1]
    /\ run("timer")

\* scheduler.ts:20-25 and 39-46: a live daily timer fires, runCleanup calls run
DailyFires ==
    /\ scheduler.intervalTimers > 0
    /\ UNCHANGED scheduler
    /\ run("timer")

\* The scheduler started and stopped at any times, its timers firing, the runs
\* they start going through their steps.
SchedulerNext ==
    \/ scheduler.calls < MaxSchedulerCalls /\ SchedulerStart
    \/ scheduler.calls < MaxSchedulerCalls /\ SchedulerStop
    \/ nextJob <= MaxTriggers /\ FirstRunFires
    \/ nextJob <= MaxTriggers /\ DailyFires
    \/ \E j \in jobs : HourlyRollup(j, TRUE)
    \/ \E j \in jobs : DailyRollup(j, TRUE)
    \/ \E j \in jobs, batch \in SUBSET raw : DeleteBatch(j, TRUE, batch)
    \/ \E j \in jobs : DeleteAggregates(j, TRUE)
    \/ \E j \in jobs : Vacuum(j, TRUE)

SchedulerSpec == Init /\ [][SchedulerNext]_vars

\* ------------------------------------------------------ the rate limiter
\* python-api.ts:194-204, the options of the two limiters of /api/endpoints
Config(limiter) ==
    [ windowMs |-> WindowMs,
      max      |-> IF limiter = "apiRateLimit" THEN ApiMax ELSE CreateEndpointMax ]

\* Math.ceil(ms / 1000)
CeilSeconds(ms) == (ms + 999) \div 1000

\* python-api.ts:168-178: the record of a key after a request at time t counted,
\* found the record the Map holds or, with no entry, a new one
Counted(record, t, options) ==
    LET window == options.windowMs \div RateTickMs
        found  == IF record.present
                  THEN record
                  ELSE [present |-> TRUE, attempts |-> 0, resetTime |-> t + window]
        fresh  == IF found.resetTime < t
                  THEN [found EXCEPT !.attempts = 0, !.resetTime = t + window]
                  ELSE found
    IN  [fresh EXCEPT !.attempts = @ + 1]

\* python-api.ts:164-191 under withRateLimit 212-241: what one request to the
\* route that limiter guards, from the client with this key, does to the store
\* of the limiter. status 0: the middleware returned null and the handler
\* answers.
Limit(limiter, key) ==
    LET options == Config(limiter)
        record  == Counted(rlStore[key], rlNow, options)
    IN  /\ rlStore' = [rlStore EXCEPT ![key] = record]
        /\ rlLast' =
              IF record.attempts > options.max
              THEN [ limiter |-> limiter, key |-> key, status |-> 429,
                     retryAfter |-> CeilSeconds((record.resetTime - rlNow) * RateTickMs) ]
              ELSE [ limiter |-> limiter, key |-> key, status |-> 0, retryAfter |-> 0 ]
        /\ rlSeen' = [rlSeen EXCEPT ![limiter][key] = Counted(@, rlNow, options)]
        /\ UNCHANGED rlNow

\* a request to a route whose handler changes nothing (GET), or any request
\* seen from the limiter alone
rateLimitMiddleware(limiter, key) ==
    /\ Limit(limiter, key)
    /\ UNCHANGED nonLimiterVars

\* python-api.ts:127-137, the sweeper deletes the entries whose window is over
Sweep ==
    /\ rlStore' = [k \in ClientKeys |->
                     IF rlStore[k].present /\ rlStore[k].resetTime < rlNow
                     THEN NoRecord ELSE rlStore[k]]
    /\ UNCHANGED <<rlNow, rlLast, rlSeen>>
    /\ UNCHANGED nonLimiterVars

RateTick ==
    /\ rlNow' = rlNow + 1
    /\ UNCHANGED <<rlStore, rlLast, rlSeen>>
    /\ UNCHANGED nonLimiterVars

LimiterNext ==
    \/ \E limiter \in Limiters, key \in ClientKeys :
          rlStore[key].attempts < MaxAttempts /\ rateLimitMiddleware(limiter, key)
    \/ (\E k \in ClientKeys : rlStore[k].present /\ rlStore[k].resetTime < rlNow) /\ Sweep
    \/ rlNow < MaxRateNow /\ RateTick

LimiterSpec == Init /\ [][LimiterNext]_vars

\* --------------------------------------------------- the endpoints routes
Min(a, b) == IF a < b THEN a ELSE b
Max(a, b) == IF a > b THEN a ELSE b

\* x || d for a number x
OrDefault(x, d) == IF x = 0 THEN d ELSE x

LOWER(name) == IF name = "A" THEN "a" ELSE name

\* api/endpoints/route.ts:12-19
validateUrl(url) == url = "http://host"

\* init-db/02-performance-indexes.sql:19-20 and the UNIQUE of endpoints.name:
\* the store accepts row as the row of endpoint e
StoreAccepts(e, row) ==
    /\ row.checkInterval >= MinCheckInterval
    /\ row.timeout >= MinTimeout
    /\ \A x \in EndpointIds \ {e} : dbEndpoints[x].exists => dbEndpoints[x].name # row.name

Respond(status) == apiLast' = [status |-> status]

\* the routes' call of restartEndpointMonitoring(e), the engine otherwise as it is
RestartAfterWrite(e) ==
    /\ calls' = calls \cup {Call(nextCall, "restart", e, "begin", {})}
    /\ nextCall' = nextCall + 1
    /\ UNCHANGED <<now, dbChecks, intervals, timers, probes, nextPid, breakers,
                   consecutiveFailures, announced>>
    /\ stopped' = FALSE
    /\ bus' = <<>>

\* api/endpoints/route.ts:114-121, the values POST goes on with
validatedCheckInterval(body) ==
    Min(MaxCheckInterval, Max(MinCheckInterval, OrDefault(body.checkInterval, DefaultCheckInterval)))
validatedTimeout(body) ==
    Min(MaxTimeout, Max(MinTimeout, OrDefault(body.timeout, DefaultTimeout)))

\* api/endpoints/route.ts:63-150: POST of an authenticated client up to its
\* await of the duplicate check; the rate limiter counts the request first
PostBegin(key, body) ==
    /\ Limit("createEndpointRateLimit", key)
    /\ IF rlLast'.status = 429
       THEN Respond(429) /\ UNCHANGED apiCalls
       ELSE IF body.name = "" \/ body.url = "" \/ ~validateUrl(body.url)
       THEN Respond(400) /\ UNCHANGED apiCalls
       ELSE IF validatedTimeout(body) >= validatedCheckInterval(body)
       THEN Respond(400) /\ UNCHANGED apiCalls
       ELSE /\ apiCalls' = apiCalls \cup
                  {[ aid  |-> CHOOSE i \in 1..MaxPosts : \A a \in apiCalls : a.aid # i,
                     pc   |-> "duplicateCheck",
                     name |-> body.name,
                     checkInterval |-> validatedCheckInterval(body),
                     timeout |-> validatedTimeout(body) ]}
            /\ UNCHANGED apiLast
    /\ UNCHANGED <<engineVars, breakerVars, busVars, retentionVars, statsVars>>

\* api/endpoints/route.ts:146-160: the store answers the duplicate check
PostDuplicateCheck(a) ==
    /\ a \in apiCalls /\ a.pc = "duplicateCheck"
    /\ IF \E e \in EndpointIds : dbEndpoints[e].exists /\ LOWER(dbEndpoints[e].name) = LOWER(a.name)
       THEN Respond(409) /\ apiCalls' = apiCalls \ {a}
       ELSE apiCalls' = (apiCalls \ {a}) \cup {[a EXCEPT !.pc = "insert"]} /\ UNCHANGED apiLast
    /\ UNCHANGED <<engineVars, breakerVars, busVars, retentionVars, limiterVars, statsVars>>

\* api/endpoints/route.ts:162-222: the store answers the INSERT, as endpoint e
\* when it accepts the row; POST goes on to restartEndpointMonitoring and
\* answers 201, or answers 409 to the store's "duplicate key"
PostInsert(a, e) ==
    /\ a \in apiCalls /\ a.pc = "insert"
    /\ ~dbEndpoints[e].exists
    /\ apiCalls' = apiCalls \ {a}
    /\ LET row == [exists |-> TRUE, enabled |-> TRUE, checkInterval |-> a.checkInterval,
                   timeout |-> a.timeout, name |-> a.name]
       IN  IF StoreAccepts(e, row)
           THEN /\ dbEndpoints' = [dbEndpoints EXCEPT ![e] = row]
                /\ RestartAfterWrite(e)
                /\ Respond(201)
                /\ UNCHANGED <<breakerVars, busVars, retentionVars, limiterVars, statsVars>>
           ELSE /\ Respond(409)
                /\ UNCHANGED <<engineVars, breakerVars, busVars, retentionVars,
                               limiterVars, statsVars>>

\* api/endpoints/[id]/route.ts:47-134: PUT writes what the body holds, and
\* when the store took it goes on to restartEndpointMonitoring
Put(e, body) ==
    LET row == [exists |-> TRUE,
                enabled |-> body.enabled,
                checkInterval |-> OrDefault(body.checkInterval, DefaultCheckInterval),
                timeout |-> OrDefault(body.timeout, DefaultTimeout),
                name |-> body.name]
    IN  /\ UNCHANGED apiCalls
        /\ IF body.name = "" \/ body.url = ""
           THEN /\ Respond(400)
                /\ UNCHANGED <<engineVars, breakerVars, busVars, retentionVars,
                               limiterVars, statsVars>>
           ELSE IF ~dbEndpoints[e].exists
           THEN /\ Respond(404)
                /\ UNCHANGED <<engineVars, breakerVars, busVars, retentionVars,
                               limiterVars, statsVars>>
           ELSE IF ~StoreAccepts(e, row)
           THEN /\ Respond(500)
                /\ UNCHANGED <<engineVars, breakerVars, busVars, retentionVars,
                               limiterVars, statsVars>>
           ELSE /\ dbEndpoints' = [dbEndpoints EXCEPT ![e] = row]
                /\ RestartAfterWrite(e)
                /\ Respond(200)
                /\ UNCHANGED <<breakerVars, busVars, retentionVars, limiterVars, statsVars>>

\* The store holds endpoint 1 only, or no endpoint yet.
ApiInit ==
    /\ \E stored \in {{}, {1}} :
       EngineOver([e \in EndpointIds |->
                     IF e \in stored
                     THEN [exists |-> TRUE, enabled |-> TRUE,
                           checkInterval |-> CheckIntervalSec, timeout |-> DefaultTimeout,
                           name |-> StoredNames[e]]
                     ELSE NoRow])
    /\ BreakerIdle /\ BusInit /\ RetentionInit({}) /\ LimiterInit /\ ApiIdle /\ StatsIdle

ApiNext ==
    \/ \E key \in ClientKeys, body \in Bodies :
          Cardinality(apiCalls) < MaxPosts /\ rlStore[key].attempts < MaxPosts
            /\ PostBegin(key, body)
    \/ \E a \in apiCalls : PostDuplicateCheck(a)
    \/ \E a \in apiCalls, e \in EndpointIds : nextCall <= MaxCalls /\ PostInsert(a, e)
    \/ \E e \in EndpointIds, body \in Bodies : nextCall <= MaxCalls /\ Put(e, body)
    \/ \E c \in calls : RestartBegin(c)
    \/ \E c \in calls, ok \in BOOLEAN : RestartQuery(c, ok)
    \/ \E c \in calls : nextPid <= MaxProbes /\ RestartResume(c)

ApiSpec == ApiInit /\ [][ApiNext]_vars

\* The engine started at boot and the endpoints updated while it runs: PUT
\* requests, the restarts they call, the loops' timers.
UpdateNext ==
    \/ nextCall <= 1 /\ StartMonitoring
    \/ \E c \in calls : StartQuery(c, TRUE)
    \/ \E c \in calls : StartResume(c)
    \/ \E e \in EndpointIds, body \in Bodies : nextCall <= MaxCalls + 1 /\ Put(e, body)
    \/ \E c \in calls : RestartBegin(c)
    \/ \E c \in calls : RestartQuery(c, TRUE)
    \/ \E c \in calls : nextPid <= MaxUpdateProbes /\ RestartResume(c)
    \/ \E tm \in timers : nextPid <= MaxUpdateProbes /\ TimerTick(tm)

UpdateSpec == Init /\ [][UpdateNext]_vars

\* ------------------------------------------- one loop and its breaker
\* The loop of endpoint 1 with the breaker of its probes: the timer fires
\* every checkInterval, a restart of the loop probes at once, each probe's
\* fetch settles.  The breaker reads times only as differences with
\* Date.now() (circuit-breaker.ts:33, 77, 92-93), so the state keeps them
\* relative to the present: when d passes, the present stays at now and the
\* times the breaker holds move back by d, as far as the oldest that matters.
IntervalTicks(checkInterval) == (checkInterval * 1000) \div TimeUnitMs

Rebased(b, d) ==
    [b EXCEPT !.nextAttempt = Max(@ - d, now),
              !.requestTimestamps =
                  [i \in 1..Len(@) |-> Max(@[i] - d, now - b.config.monitoringPeriod)]]

RebasedSamples(samples, d) ==
    [i \in 1..Len(samples) |->
        [samples[i] EXCEPT !.ts = Max(@ - d, now - cb.config.monitoringPeriod)]]

\* monitoring.ts:94-96 with circuit-breaker.ts:29-40: one checkInterval after
\* the last tick the timer's callback calls checkEndpoint, which enters
\* execute; the probes called before have settled (the fetch timeout is
\* shorter than checkInterval)
LoopTick ==
    /\ cbPending = 0
    /\ LET d == IntervalTicks(dbEndpoints[1].checkInterval)
           r == executeEntry(Rebased(cb, d), now)
       IN  /\ cb' = r.b
           /\ cbPending' = IF r.admitted THEN cbPending + 1 ELSE cbPending
           /\ cbLast' = Remember(IF r.admitted THEN "admitted" ELSE "rejected")
           /\ cbSamples' = InWindow(RebasedSamples(cbSamples, d), now)
           /\ cbHooks' = r.hooks
    /\ UNCHANGED endpointUp
    /\ UNCHANGED nonBreakerVars

\* monitoring.ts:63-98: a restart of the loop calls checkEndpoint at once
LoopRestart ==
    /\ cbPending < MaxPending
    /\ cb.requestCount + cbPending < MaxLoopRequests
    /\ Execute

\* monitoring.ts:130-143 with circuit-breaker.ts:41-48: the fetch of a probe
\* settles, with the expected status or not
LoopSettle ==
    /\ cb.requestCount < MaxLoopRequests
    /\ OperationSettles(~endpointUp)

\* The endpoint recovers, while the counters leave room for the probes of
\* its recovery.
Recover ==
    /\ ~endpointUp
    /\ cb.requestCount + cbPending + MinimumRequests < MaxLoopRequests
    /\ endpointUp' = TRUE
    /\ UNCHANGED <<cb, cbPending, cbLast, cbSamples, cbHooks>>
    /\ UNCHANGED nonBreakerVars

\* monitoring.ts:107-124: the breaker of endpoint 1 as its first probe creates
\* it, for each checkInterval of LoopIntervals
LoopInit ==
    /\ \E checkInterval \in LoopIntervals :
          /\ EngineOver([e \in EndpointIds |->
                 [exists |-> TRUE, enabled |-> TRUE, checkInterval |-> checkInterval,
                  timeout |-> DefaultTimeout, name |-> StoredNames[e]]])
          /\ cb = NewBreaker(BreakerConfig(checkInterval))
    /\ BusInit /\ RetentionInit({}) /\ LimiterInit /\ ApiIdle /\ StatsIdle
    /\ cbPending = 0
    /\ cbLast = <<>>
    /\ cbSamples = <<>>
    /\ cbHooks = <<>>
    /\ endpointUp = FALSE

LoopNext ==
    \/ LoopTick
    \/ LoopRestart
    \/ LoopSettle
    \/ Recover

\* The timer keeps firing and every fetch settles (it has a timeout).
LoopSpec ==
    LoopInit /\ [][LoopNext]_vars /\ SF_vars(LoopTick) /\ WF_vars(LoopSettle)

\* ---------------------------------------------------- the full update
\* allStatistics.slice taking its chunks from the start of the array
sliceFromStart(all, start, end) == SubSeq(all, 1, Min(end - start, Len(all)))

\* websocket-server.ts:142, Array.prototype.slice(start, end)
slice(all, start, end) == SubSeq(all, start + 1, Min(end, Len(all)))

\* socket.emit('bulkUpdate', chunk)
Bulk(chunk) == [seq |-> 0, event |-> "bulkUpdate", endpointId |-> 0, message |-> chunk]

\* websocket-server.ts:141-149, one turn of the loop from index i: the chunk is
\* emitted, and the handler pauses when statistics are left and ends otherwise
EmitChunk(s, all, i) ==
    /\ inbox' = [inbox EXCEPT ![s] = Append(@, Bulk(slice(all, i, i + CHUNK_SIZE)))]
    /\ fullUpdates' = [fullUpdates EXCEPT ![s] =
            [pc |-> IF i + CHUNK_SIZE < Len(all) THEN "pause" ELSE "done",
             all |-> all, i |-> i + CHUNK_SIZE]]

\* websocket-server.ts:81-84 and 132-137: the middleware notes the activity,
\* the handler starts and waits for getAllUptimeStatuses
RequestFullUpdate(s) ==
    /\ s \in sockets
    /\ fullUpdates[s].pc = "idle"
    /\ fullUpdates' = [fullUpdates EXCEPT ![s].pc = "query"]
    /\ clientLastActivity' = [clientLastActivity EXCEPT ![s] = wsNow]
    /\ UNCHANGED <<sockets, otherSockets, joined, clientRooms, inbox, nextEvent,
                   lastConnect, wsNow, sweeper>>
    /\ UNCHANGED nonBusVars

\* websocket-server.ts:137-165: getAllUptimeStatuses settles, with the
\* statistics of n endpoints or (ok false) with an error; the first chunk is
\* emitted at once
SnapshotReady(s, n, ok) ==
    /\ fullUpdates[s].pc = "query"
    /\ LET all == [k \in 1..n |-> k]
       IN  IF ~ok
           THEN /\ inbox' = [inbox EXCEPT ![s] = Append(@,
                        Notice("Failed to fetch latest monitoring data", "error"))]
                /\ fullUpdates' = [fullUpdates EXCEPT ![s].pc = "failed"]
           ELSE IF Len(all) > 0
           THEN EmitChunk(s, all, 0)
           ELSE /\ inbox' = [inbox EXCEPT ![s] = Append(@,
                        Notice("No monitoring data available yet", "info"))]
                /\ fullUpdates' = [fullUpdates EXCEPT ![s].pc = "done"]
    /\ UNCHANGED <<sockets, otherSockets, joined, clientRooms, nextEvent, lastConnect,
                   wsNow, clientLastActivity, sweeper>>
    /\ UNCHANGED nonBusVars

\* websocket-server.ts:145-147: the pause of 100 ms is over, the loop goes on
PauseOver(s) ==
    /\ fullUpdates[s].pc = "pause"
    /\ EmitChunk(s, fullUpdates[s].all, fullUpdates[s].i)
    /\ UNCHANGED <<sockets, otherSockets, joined, clientRooms, nextEvent, lastConnect,
                   wsNow, clientLastActivity, sweeper>>
    /\ UNCHANGED nonBusVars

\* Sessions that connect, ask for a full update once and stay.
FullUpdateNext ==
    \/ \E s \in SessionIds : Connect(s)
    \/ \E s \in SessionIds : RequestFullUpdate(s)
    \/ \E s \in SessionIds, n \in 0..MaxStatistics, ok \in BOOLEAN : SnapshotReady(s, n, ok)
    \/ \E s \in SessionIds : PauseOver(s)

FullUpdateSpec == Init /\ [][FullUpdateNext]_vars

\* ------------------------------------------- the statistics of an endpoint
\* A positive double is [m, e]: m its significand, Precision binary digits with
\* the leading one first, e the exponent of the last digit; its value is
\* m * 2^e.  Zero is ZeroDouble.
ZeroDouble == [m |-> <<>>, e |-> 0]

Zeros(n) == [i \in 1..n |-> 0]

\* the binary number one above digits, which are not all ones
Increment(digits) ==
    LET n    == Len(digits)
        last == CHOOSE i \in 1..n : digits[i] = 0 /\ \A j \in (i + 1)..n : digits[j] = 1
    IN  [i \in 1..n |-> IF i < last THEN digits[i] ELSE IF i = last THEN 1 ELSE 0]

\* IEEE 754 round to nearest, ties to even: digits are the leading digits of
\* the exact result, more than Precision of them, e the exponent of the last
\* one, sticky tells that the exact result has non-zero digits below them
RoundNearestEven(digits, e, sticky) ==
    LET n     == Len(digits)
        kept  == SubSeq(digits, 1, Precision)
        guard == digits[Precision + 1]
        rest  == sticky \/ \E i \in (Precision + 2)..n : digits[i] = 1
        up    == guard = 1 /\ (rest \/ kept[Precision] = 1)
        e1    == e + (n - Precision)
    IN  IF ~up THEN [m |-> kept, e |-> e1]
        ELSE IF \A i \in 1..Precision : kept[i] = 1
             THEN [m |-> <<1>> \o Zeros(Precision - 1), e |-> e1 + 1]
             ELSE [m |-> Increment(kept), e |-> e1]

\* the double a / b for integers 0 <= a <= b, b > 0: binary long division,
\* rem[i] what is left after the digit of exponent -i, the first Precision + 1
\* digits from the leading one on rounded
Divide(a, b) ==
    IF a = 0 THEN ZeroDouble
    ELSE LET rem[i \in 0..(b + Precision)] ==
                 IF i = 0 THEN a % b ELSE (2 * rem[i - 1]) % b
             digit(i) == IF i = 0 THEN a \div b ELSE (2 * rem[i - 1]) \div b
             lead == CHOOSE i \in 0..b :
                         digit(i) = 1 /\ \A j \in 0..(i - 1) : digit(j) = 0
         IN  RoundNearestEven([k \in 1..(Precision + 1) |-> digit(lead + k - 1)],
                              0 - (lead + Precision),
                              rem[lead + Precision] # 0)

\* the number the binary digits stand for, fewer than 31 of them
ValueOf(digits) ==
    LET val[i \in 0..Len(digits)] == IF i = 0 THEN 0 ELSE 2 * val[i - 1] + digits[i]
    IN  val[Len(digits)]

\* the n binary digits of v < 2^n
DigitsOf(v, n) == [i \in 1..n |-> (v \div 2^(n - i)) % 2]

\* the double x * k for a double x and an integer 1 < k < 2^12: the exact
\* product, worked out on three parts of the significand of LimbDigits digits
\* or fewer, rounded
Times(x, k) ==
    IF x = ZeroDouble THEN ZeroDouble
    ELSE LET top  == Precision - 2 * LimbDigits
             base == 2^LimbDigits
             p0   == ValueOf(SubSeq(x.m, top + LimbDigits + 1, Precision)) * k
             p1   == ValueOf(SubSeq(x.m, top + 1, top + LimbDigits)) * k + p0 \div base
             p2   == ValueOf(SubSeq(x.m, 1, top)) * k + p1 \div base
             n2   == CHOOSE n \in 1..30 : 2^(n - 1) <= p2 /\ p2 < 2^n
         IN  RoundNearestEven(DigitsOf(p2, n2) \o DigitsOf(p1 % base, LimbDigits)
                                  \o DigitsOf(p0 % base, LimbDigits),
                              x.e, FALSE)

\* Math.floor(x) for a double 0 <= x < 2^30
MathFloor(x) ==
    IF x = ZeroDouble THEN 0
    ELSE LET whole == Precision + x.e
         IN  IF whole >= 1 THEN ValueOf(SubSeq(x.m, 1, whole)) ELSE 0

\* Math.round(x) for a double 0 <= x < 2^30: the integer nearest to x, the
\* upper one of two that are equally near
MathRound(x) ==
    IF x = ZeroDouble THEN 0
    ELSE LET whole == Precision + x.e      \* how many digits of m stand before the point
         IN  (IF whole >= 1 THEN ValueOf(SubSeq(x.m, 1, whole)) ELSE 0)
             + (IF whole >= 0 THEN x.m[whole + 1] ELSE 0)

\* monitoring.ts:551-555 and 569: uptimePercentage of the counts read, as the
\* number of hundredths n the reported double n / 100 stands for
uptimePercentage(successfulChecks, totalChecks) ==
    LET ratio == IF totalChecks > 0
                 THEN Times(Divide(successfulChecks, totalChecks), 100)
                 ELSE ZeroDouble
    IN  MathRound(Times(ratio, 100))

\* monitoring.ts:516-577: getUptimeStatistics reports on the counts it read
ReportStatistics ==
    /\ statsOut = NotReported
    /\ statsOut' = uptimePercentage(statsRow.successful, statsRow.total)
    /\ UNCHANGED statsRow
    /\ UNCHANGED <<engineVars, breakerVars, busVars, retentionVars, limiterVars, apiVars>>

\* the statistics query returned any counts with successful <= total
StatsInit ==
    /\ EngineInit([e \in EndpointIds |-> TRUE])
    /\ BreakerIdle /\ BusInit /\ RetentionInit({}) /\ LimiterInit /\ ApiIdle
    /\ \E t \in 0..MaxTotal : \E u \in 0..t :
          statsRow = [successful |-> u, total |-> t]
    /\ statsOut = NotReported

StatsNext == ReportStatistics

StatsSpec == StatsInit /\ [][StatsNext]_vars

\* ------------------------------------------------------------ the claims
InFlight(e) == {p \in probes : p.endpoint.id = e}
LiveTimers(e) == {tm \in timers : tm.endpoint.id = e}

\* C1: for every endpoint at most one probe (a checkEndpoint call that has
\* started and has not finished storing and broadcasting) is in flight.
C1_SingleFlight == \A e \in EndpointIds : Cardinality(InFlight(e)) <= 1

\* C2: each endpoint has at most one live periodic timer, and every live timer
\* is the one registered under its endpoint's id in intervals.
C2_OneRegisteredTimer ==
    /\ \A e \in EndpointIds : Cardinality(LiveTimers(e)) <= 1
    /\ \A tm \in timers : intervals[tm.endpoint.id] = tm.tid

\* C2's case: a start or restart call resumes for an enabled endpoint whose
\* loop another call has registered in the meantime.
C2_Witness ==
    \E c \in calls :
        /\ c.pc = "resume"
        /\ \E ep \in c.result : ep.enabled /\ intervals[ep.id] # 0

\* The row the open-circuit branch of checkEndpoint is to store for endpoint e.
IsShortCircuitRow(c, e) ==
    /\ c.endpointId = e /\ c.status = "DOWN" /\ c.statusCode = 0
    /\ c.responseTime = 0 /\ c.errorReason = "Circuit breaker open"

RejectsNow(e) == breakers[e].state = "OPEN" /\ now < breakers[e].nextAttempt

\* C3: a tick the endpoint's OPEN breaker rejects leaves consecutiveFailures
\* as it is and hands exactly one row to the store, DOWN with statusCode 0,
\* responseTime 0 and errorReason "Circuit breaker open"; when the store
\* accepts the insert that row, and no other, is persisted, and the probe ends
\* with consecutiveFailures still as it was.
C3_ShortCircuitAccounting ==
    [][/\ \A tm \in timers :
            (RejectsNow(tm.endpoint.id) /\ TimerTick(tm)) =>
                /\ consecutiveFailures' = consecutiveFailures
                /\ dbChecks' = dbChecks
                /\ \E q \in probes' \ probes :
                      /\ probes' = probes \cup {q}
                      /\ IsShortCircuitRow(q.check, tm.endpoint.id)
       /\ \A p \in probes, ok \in BOOLEAN :
            (IsShortCircuitRow(p.check, p.endpoint.id) /\ StoreDone(p, ok)) =>
                /\ consecutiveFailures' = consecutiveFailures
                /\ probes' = probes \ {p}
                /\ p.check \notin dbChecks
                /\ dbChecks' = IF ok THEN dbChecks \cup {p.check} ELSE dbChecks
      ]_vars

\* C3's case: three failures were counted, and a rejected tick's row is stored.
C3_Witness ==
    /\ consecutiveFailures[1] = 3
    /\ \E c \in dbChecks : IsShortCircuitRow(c, 1)

\* C4 (as stated): in CLOSED, once an outcome is recorded, if the samples inside
\* monitoringPeriod number at least minimumRequests and the failures among
\* them are at least failureThreshold percent, the breaker is OPEN with
\* nextAttempt = now + resetTimeout.
C4_OpensOnWindowRate ==
    [][\A failed \in BOOLEAN :
          (cb.state = "CLOSED" /\ OperationSettles(failed)) =>
              LET w == InWindow(cbSamples', now)
              IN  (/\ Len(w) >= cb.config.minimumRequests
                   /\ Len(Failed(w)) * 100 >= cb.config.failureThreshold * Len(w))
                  => /\ cb'.state = "OPEN"
                     /\ cb'.nextAttempt = now + cb.config.resetTimeout
      ]_vars

\* C5: while the breaker is OPEN and now < nextAttempt an execute call is
\* rejected: no operation is invoked, no sample is added, state and
\* nextAttempt stay; an execute call of an OPEN breaker with now >= nextAttempt
\* moves it to HALF_OPEN and invokes the operation.
C5_OpenRejectsUntilNextAttempt ==
    [][(cb.state = "OPEN" /\ Execute) =>
          IF now < cb.nextAttempt
          THEN /\ cbLast'[Len(cbLast')] = "rejected"
               /\ cbPending' = cbPending
               /\ cb'.state = "OPEN"
               /\ cb'.nextAttempt = cb.nextAttempt
               /\ Len(cb'.requestTimestamps) <= Len(cb.requestTimestamps)
               /\ cb'.requestCount <= cb.requestCount
               /\ cb'.failures <= cb.failures
               /\ Len(cbSamples') <= Len(cbSamples)
          ELSE /\ cbLast'[Len(cbLast')] = "admitted"
               /\ cbPending' = cbPending + 1
               /\ cb'.state = "HALF_OPEN"
      ]_vars

\* C5's case: a call was rejected, and the next call, at nextAttempt or
\* later, was let through.
C5_Witness ==
    /\ cbLast = <<"rejected", "admitted">>
    /\ cb.state = "HALF_OPEN"
    /\ now >= cb.nextAttempt

\* C6 (as stated): HALF_OPEN is left only by a failure, to OPEN with
\* nextAttempt = now + resetTimeout, or by a success, to CLOSED with the
\* failure, success and request counters all zero; and a failure in HALF_OPEN
\* does leave it.
C6_HalfOpenExits ==
    [][/\ (cb.state = "HALF_OPEN" /\ cb'.state # "HALF_OPEN") =>
             \/ /\ OperationSettles(TRUE)
                /\ cb'.state = "OPEN"
                /\ cb'.nextAttempt = now + cb.config.resetTimeout
             \/ /\ OperationSettles(FALSE)
                /\ cb'.state = "CLOSED"
                /\ cb'.failures = 0 /\ cb'.successes = 0 /\ cb'.requestCount = 0
       /\ (cb.state = "HALF_OPEN" /\ OperationSettles(TRUE)) => cb'.state = "OPEN"
      ]_vars

NoSampleInWindow == InWindow(cbSamples, now) = <<>>

CountersZero(b) == b.failures = 0 /\ b.successes = 0 /\ b.requestCount = 0

\* C7 (as stated): whatever the breaker's state, once monitoringPeriod has
\* passed with no new sample a call finds the counters zero, and a single
\* failure recorded then does not open the breaker unless minimumRequests <= 1.
C7_AnyState ==
    [][/\ (NoSampleInWindow /\ Execute) => CountersZero(cb')
       /\ (/\ NoSampleInWindow
           /\ cb.config.minimumRequests > 1
           /\ OperationSettles(TRUE)) => cb'.state # "OPEN"
      ]_vars

Published(event) == {i \in 1..Len(bus) : bus[i].event = event}

C9_AtMostOnceInOrder ==
    \A s \in SessionIds :
        \A i, j \in 1..Len(inbox[s]) :
            (/\ i < j
             /\ inbox[s][i].event \in {"newCheck", "uptimeUpdate"}
             /\ inbox[s][j].event \in {"newCheck", "uptimeUpdate"})
            => inbox[s][i].seq < inbox[s][j].seq

\* C10: there are never more than MAX_CLIENTS sessions, and a connection
\* attempted while MAX_CLIENTS sessions are established is rejected and makes
\* no session.
C10_SessionCap ==
    /\ [](Size <= MAX_CLIENTS)
    /\ [][(/\ Size = MAX_CLIENTS
           /\ (ConnectOther \/ \E s \in SessionIds : Connect(s)))
          => /\ lastConnect' = "rejected"
             /\ sockets' = sockets
             /\ otherSockets' = otherSockets
             /\ clientRooms' = clientRooms
         ]_vars

\* C10's case: MAX_CLIENTS sessions are established and the last connection
\* attempt was rejected.
C10_Witness ==
    /\ Size = MAX_CLIENTS
    /\ lastConnect = "rejected"

\* C11: a session is never in more than MAX_ROOMS_PER_CLIENT rooms, and a
\* subscribe of a session that is in MAX_ROOMS_PER_CLIENT rooms sends it the
\* error notice and leaves its rooms as they are.
C11_RoomCap ==
    /\ [](\A s \in SessionIds : Cardinality(joined[s]) <= MAX_ROOMS_PER_CLIENT)
    /\ [][\A s \in SessionIds, room \in RequestableRooms :
            (Cardinality(joined[s]) = MAX_ROOMS_PER_CLIENT /\ Subscribe(s, room)) =>
                /\ joined' = joined
                /\ clientRooms' = clientRooms
                /\ inbox'[s] = Append(inbox[s],
                                      Notice("Subscription limit reached", "error"))
         ]_vars

\* C11's case: a session in MAX_ROOMS_PER_CLIENT rooms has been sent the error
\* notice.
C11_Witness ==
    \E s \in sockets :
        /\ Cardinality(joined[s]) = MAX_ROOMS_PER_CLIENT
        /\ inbox[s] # <<>>
        /\ inbox[s][Len(inbox[s])] = Notice("Subscription limit reached", "error")

\* C12 (as stated): once a run of the retention job has completed, a second run
\* made back-to-back, with no raw check inserted and before the clock moves,
\* leaves every hourly and daily aggregate row as the first run left it and
\* deletes no raw row.
C12_SecondRunChangesNothing ==
    (snap.taken /\ cleanupNow = CleanupStart) =>
        /\ hourly = snap.hourly
        /\ daily = snap.daily
        /\ raw = snap.raw

\* C13: at most one call of run is past the test of isRunning at any time, and
\* a trigger that arrives while one is leaves the tables and that run alone.
C13_OneRunAtATime ==
    /\ [](Cardinality(jobs) <= 1 /\ (jobs # {} => isRunning))
    /\ [][\A source \in {"timer", "manual", "route"} :
            (jobs # {} /\ Trigger(source)) =>
                /\ jobs' = jobs
                /\ raw' = raw /\ hourly' = hourly /\ daily' = daily
                /\ lastRun' = "skipped"
         ]_vars

\* C13's case: a trigger was skipped while a run was deleting raw rows.
C13_Witness ==
    /\ lastRun = "skipped"
    /\ \E j \in jobs : j.pc = "delete" /\ \E r \in raw : r.ts < j.cutoff

\* C18 (as stated): a roll-up step the store answers completes without error,
\* leaves one row for each (endpoint_id, bucket) of the rows it aggregates,
\* and no key twice in its table.
C18_RollupOneRowPerBucket ==
    /\ [](/\ \A a, b \in hourly : SameKey(a, b) => a = b
          /\ \A a, b \in daily : SameKey(a, b) => a = b)
    /\ [][\A j \in jobs :
            /\ HourlyRollup(j, TRUE) =>
                  /\ \E k \in jobs' : k.jid = j.jid /\ k.pc = "daily"
                  /\ \A g \in Aggregates(raw, cleanupNow, HourlyRetentionDays, TicksPerHour) :
                        Cardinality({e \in hourly' : SameKey(e, g)}) = 1
            /\ DailyRollup(j, TRUE) =>
                  /\ \E k \in jobs' : k.jid = j.jid /\ k.pc = "delete"
                  /\ \A g \in Aggregates(raw, cleanupNow, DailyRetentionDays, TicksPerDay) :
                        Cardinality({e \in daily' : SameKey(e, g)}) = 1
         ]_vars

\* C15: for 0 <= successful <= total the reported uptimePercentage lies in
\* [0, 100]; with total > 0 it is successful / total * 100 rounded half up to
\* two decimals, with total = 0 it is 0.
C15_RoundedHalfUp ==
    statsOut # NotReported =>
        /\ statsOut \in 0..10000
        /\ statsOut = IF statsRow.total > 0
                      THEN (2 * 10000 * statsRow.successful + statsRow.total)
                               \div (2 * statsRow.total)
                      ELSE 0

\* C16: every endpoint in the store has timeout < checkInterval, and a POST or
\* PUT (of an endpoint the store holds) whose effective timeout is at least its
\* effective checkInterval is answered with the validation error 400 and
\* leaves the store as it is.
C16_TimeoutBelowInterval ==
    /\ [](\A e \in EndpointIds :
             dbEndpoints[e].exists => dbEndpoints[e].timeout < dbEndpoints[e].checkInterval)
    /\ [][/\ \A key \in ClientKeys, body \in Bodies :
               ( /\ validatedTimeout(body) >= validatedCheckInterval(body)
                 /\ body.name # "" /\ validateUrl(body.url)
                 /\ PostBegin(key, body) /\ rlLast'.status # 429 ) =>
                   apiLast'.status = 400 /\ apiCalls' = apiCalls /\ dbEndpoints' = dbEndpoints
          /\ \A e \in EndpointIds, body \in Bodies :
               ( /\ OrDefault(body.timeout, DefaultTimeout)
                        >= OrDefault(body.checkInterval, DefaultCheckInterval)
                 /\ dbEndpoints[e].exists
                 /\ Put(e, body) ) =>
                   apiLast'.status = 400 /\ dbEndpoints' = dbEndpoints
         ]_vars

\* C17: a request is answered 429 exactly when the client has already sent max
\* requests to that same limiter in the limiter's running window; what the
\* client sent to the other route does not count.
C17_RejectedAtOwnLimit ==
    rlLast.limiter # "none" =>
        (rlLast.status = 429 <=>
            rlSeen[rlLast.limiter][rlLast.key].attempts > Config(rlLast.limiter).max)

\* C14: consecutiveFailures of every endpoint is never negative; when the
\* insert of an UP check settles the endpoint's count is 0, when the insert of
\* a DOWN check of a real probe settles it is one more than before, and the row
\* of a rejected tick leaves it alone; the counts of the other endpoints stay.
C14_FailureCount ==
    /\ [](\A e \in EndpointIds : consecutiveFailures[e] >= 0)
    /\ [][\A p \in probes, ok \in BOOLEAN :
            StoreDone(p, ok) =>
                /\ consecutiveFailures'[p.endpoint.id] =
                      CASE p.pc = "storeUp"   -> 0
                        [] p.pc = "storeDown" -> consecutiveFailures[p.endpoint.id] + 1
                        [] p.pc = "storeOpen" -> consecutiveFailures[p.endpoint.id]
                /\ \A e \in EndpointIds \ {p.endpoint.id} :
                      consecutiveFailures'[e] = consecutiveFailures[e]]_vars

\* C14's case: an UP check has just been processed after two failures in a row.
C14_Witness ==
    /\ consecutiveFailures[1] = 0
    /\ \E i \in 1..Len(bus) :
          /\ bus[i].event = "systemStatus"
          /\ bus[i].message = <<"back online", 1, 2>>

\* C19: when the probe of a tick ends with its check recorded in the store,
\* the endpoint still there and the statistics read answered, a newCheck of
\* that check has been published and the uptimeUpdate of the endpoint is
\* published; this for UP checks, DOWN checks and the rows of rejected ticks.
C19_RecordedCheckIsPublished ==
    [][\A p \in probes :
          ( /\ \A q \in probes' : q.pid # p.pid
            /\ ~StatsEndpoint(p, FALSE) /\ ~StatsChecks(p, FALSE)
            /\ p.check \in dbChecks'
            /\ dbEndpoints[p.endpoint.id].exists ) =>
              /\ p.check.id \in announced'
              /\ \E i \in 1..Len(bus') :
                    /\ bus'[i].event = "uptimeUpdate"
                    /\ bus'[i].stats.endpointId = p.endpoint.id
      ]_vars

\* C20: a published uptimeUpdate or newCheck of endpoint e reaches exactly the
\* established sessions that are in the room global or in the room of e, a
\* published systemStatus exactly those in the room global; a session in
\* neither room receives nothing of what is published.
C20_DeliveredToRoomMembers ==
    [][\A event \in {"newCheck", "uptimeUpdate", "systemStatus"}, e \in EndpointIds :
          Broadcast(event, e) =>
              \A s \in SessionIds :
                  (\E i \in 1..Len(inbox'[s]) : inbox'[s][i].seq = nextEvent)
                  <=> ( /\ s \in sockets
                        /\ \/ GlobalRoom \in joined[s]
                           \/ event # "systemStatus" /\ EndpointRoom(e) \in joined[s] )
      ]_vars

\* C20's case: session 1, in the room of endpoint 1 and not in global, has
\* received a newCheck of endpoint 1 and no systemStatus of the monitor, while
\* session 2, established and in the room of endpoint 2 only, received neither.
C20_Witness ==
    /\ sockets = SessionIds
    /\ joined[1] = {EndpointRoom(1)} /\ joined[2] = {EndpointRoom(2)}
    /\ nextEvent = 3
    /\ \E i \in 1..Len(inbox[1]) : inbox[1][i].event = "newCheck" /\ inbox[1][i].endpointId = 1
    /\ \A i \in 1..Len(inbox[1]) : inbox[1][i].seq # 0 => inbox[1][i].event = "newCheck"
    /\ \A i \in 1..Len(inbox[2]) : inbox[2][i].seq = 0

\* C21: a run of the sweeper disconnects every session whose last inbound
\* activity is more than CLIENT_TIMEOUT old and removes its rooms and its
\* activity entry, and disconnects no other session; so no session's activity
\* is ever older than CLIENT_TIMEOUT plus one period of the sweeper.
C21_IdleSweep ==
    /\ [](\A s \in sockets :
             (wsNow - clientLastActivity[s]) * WsTickMs <= CLIENT_TIMEOUT + SweepPeriodMs)
    /\ [][SweepIdle =>
            \A s \in sockets :
                IF (wsNow - clientLastActivity[s]) * WsTickMs > CLIENT_TIMEOUT
                THEN /\ s \notin sockets' /\ joined'[s] = {}
                     /\ clientRooms'[s] = NoRooms /\ clientLastActivity'[s] = NoActivity
                ELSE /\ s \in sockets' /\ joined'[s] = joined[s]
                     /\ clientRooms'[s] = clientRooms[s]
                     /\ clientLastActivity'[s] = clientLastActivity[s]]_vars

\* C21's case: the sweeper has just disconnected session 1, silent for more
\* than CLIENT_TIMEOUT, and has left session 2, whose last activity is exactly
\* CLIENT_TIMEOUT old, alone.
C21_Witness ==
    /\ sweeper = [at |-> wsNow, cut |-> {1}]
    /\ 2 \in sockets
    /\ (wsNow - clientLastActivity[2]) * WsTickMs = CLIENT_TIMEOUT

\* C22: a retention job configured with deleteEnabled = false never sets
\* isRunning and never has a call of run past its tests, and every call of run
\* leaves uptime_checks, uptime_checks_hourly and uptime_checks_daily as they
\* were and returns.
C22_DisabledJobMutatesNothing ==
    /\ [](~cleanupConfig.deleteEnabled => ~isRunning /\ jobs = {})
    /\ [][\A source \in {"timer", "manual", "route"} :
            (~cleanupConfig.deleteEnabled /\ Trigger(source)) =>
                /\ raw' = raw /\ hourly' = hourly /\ daily' = daily
                /\ isRunning' = FALSE /\ jobs' = {}
                /\ lastRun' = "disabled"
         ]_vars
    /\ [][~cleanupConfig.deleteEnabled =>
            raw' = raw /\ hourly' = hourly /\ daily' = daily]_vars

\* C22's case: run returned at the switch over a store holding raw rows past
\* the detail retention, which an enabled run would have rolled up and deleted.
C22_Witness ==
    /\ ~cleanupConfig.deleteEnabled
    /\ lastRun = "disabled"
    /\ \E r \in raw : r.ts < cleanupNow - DetailRetentionDays * TicksPerDay

\* C30: a failure of the hourly roll-up, the daily roll-up, a detail delete or
\* an aggregate delete ends its run there (the run waits at no later step and
\* changes no table in that step), run rejects, and isRunning is cleared, so
\* that the next call of run starts a run; a failure of the vacuum step lets
\* run return normally.
C30_FailedStepAbortsRun ==
    /\ [](\A j \in jobs : j.jid < nextJob)
    /\ [][\A j \in jobs :
            (\/ HourlyRollup(j, FALSE)
             \/ DailyRollup(j, FALSE)
             \/ \E batch \in SUBSET raw : DeleteBatch(j, FALSE, batch)
             \/ DeleteAggregates(j, FALSE)) =>
                /\ jobs' = {}
                /\ raw' = raw /\ hourly' = hourly /\ daily' = daily
                /\ isRunning' = FALSE
                /\ lastRun' = "failed"
         ]_vars
    /\ [][\A source \in {"timer", "manual", "route"} :
            (lastRun = "failed" /\ jobs = {} /\ Trigger(source)) =>
                /\ isRunning'
                /\ \E k \in jobs' : k.jid = nextJob /\ k.pc = "hourly"
         ]_vars
    /\ [][\A j \in jobs :
            Vacuum(j, FALSE) =>
                /\ jobs' = {}
                /\ isRunning' = FALSE
                /\ lastRun' = "completed"
         ]_vars

\* C30's case: a first run whose vacuum failed, a second run that a failed
\* step ended, and the third call of run executing.
C30_Witness ==
    /\ lastVacuum = "failed"
    /\ lastRun = "failed"
    /\ \E j \in jobs : j.jid = 3

\* C23 (as stated): an AddEndpoint whose INSERT the store answers leaves no two
\* stored endpoints with names equal up to letter case, and answers 409 to the
\* call whose name is taken up to case, whatever calls overlap with it.
C23_NamesUniqueUpToCase ==
    [][\A a \in apiCalls, e \in EndpointIds :
          (/\ PostInsert(a, e)
           /\ \A x, y \in EndpointIds :
                 (x # y /\ dbEndpoints[x].exists /\ dbEndpoints[y].exists)
                     => LOWER(dbEndpoints[x].name) # LOWER(dbEndpoints[y].name)) =>
              /\ \A x, y \in EndpointIds :
                    (x # y /\ dbEndpoints'[x].exists /\ dbEndpoints'[y].exists)
                        => LOWER(dbEndpoints'[x].name) # LOWER(dbEndpoints'[y].name)
              /\ (\E x \in EndpointIds :
                     dbEndpoints[x].exists /\ LOWER(dbEndpoints[x].name) = LOWER(a.name))
                    => apiLast'.status = 409
      ]_vars

\* C24 (as stated): whenever no startMonitoring or restartEndpointMonitoring
\* call is in progress, every registered loop belongs to an endpoint whose row
\* is in the store and is enabled.
C24_LoopsOnlyForEnabledEndpoints ==
    calls = {} =>
        \A tm \in timers :
            /\ dbEndpoints[tm.endpoint.id].exists
            /\ dbEndpoints[tm.endpoint.id].enabled

\* C25 (as stated): from the return of stopMonitoring until the next call of
\* startMonitoring or restartEndpointMonitoring no loop is registered and no
\* probe starts, whatever calls were waiting for their read when it ran; the
\* probes in flight go on.
C25_StoppedStaysStopped ==
    /\ [](stopped => timers = {} /\ intervals = [e \in EndpointIds |-> 0])
    /\ [][(stopped /\ stopped') => nextPid' = nextPid]_vars

\* C27 (as stated): whenever a probe of an endpoint starts, the breaker that
\* guards it has failureThreshold 70, monitoringPeriod 300 s, minimumRequests 3
\* and resetTimeout 3 x the checkInterval of the endpoint the loop carries,
\* also after a PUT changed checkInterval and the loop was restarted.
C27_BreakerConfigFollowsInterval ==
    [][\A p \in probes' \ probes :
          breakers'[p.endpoint.id].config = BreakerConfig(p.endpoint.checkInterval)]_vars

\* C28 (as stated): a call of the breaker (execute entering, an operation
\* settling, reset) that changes the breaker's state hands exactly the new
\* state to onStateChange, once, and a call that leaves the state as it was
\* does not call onStateChange.
C28_HookOncePerStateChange ==
    [][(Execute \/ (\E failed \in BOOLEAN : OperationSettles(failed)) \/ Reset) =>
          cbHooks' = IF cb'.state # cb.state THEN <<cb'.state>> ELSE <<>>]_vars

\* C29 (as stated): within one probe the check row is inserted, then the
\* statistics are read, then newCheck is emitted, then uptimeUpdate: the step
\* that emits the newCheck of a probe's check is the one that ends its
\* statistics read.
C29_StatsReadBeforeNewCheck ==
    [][\A p \in probes :
          (p.check.id \notin announced /\ p.check.id \in announced') =>
              p.pc = "statsChecks"
      ]_vars

\* C29 (amended): within one probe the breaker admitted, the insert of the
\* check row settles, newCheck is emitted in the same run of code, then the
\* statistics are read, then uptimeUpdate is emitted: newCheck comes from the
\* step that ends the insert and leaves the probe before its statistics read,
\* a probe at its statistics read has had its newCheck emitted, and an
\* uptimeUpdate comes from the step that ends the statistics read of such a
\* probe.
C29_NewCheckBeforeStatsRead ==
    /\ [](\A p \in probes :
             p.pc \in {"statsEndpoint", "statsChecks"} => p.check.id \in announced)
    /\ [][\A p \in probes :
             (p.check.id \notin announced /\ p.check.id \in announced') =>
                 /\ p.pc \in {"storeUp", "storeDown"}
                 /\ \E ok \in BOOLEAN : StoreDone(p, ok)
                 /\ \E q \in probes' : q.pid = p.pid /\ q.pc = "statsEndpoint"
       ]_vars
    /\ [][Published("uptimeUpdate")' # {} =>
             \E p \in probes :
                 /\ p.pc = "statsChecks" /\ StatsChecks(p, TRUE)
                 /\ p.check.id \in announced
       ]_vars

\* C29's case: a probe went through all four steps: its row is in the store,
\* its newCheck was emitted, and the uptimeUpdate just published counts it.
C29_Witness ==
    /\ probes = {}
    /\ \E i \in Published("uptimeUpdate"), c \in dbChecks :
          /\ c.id \in announced
          /\ bus[i].stats.endpointId = c.endpointId
          /\ bus[i].stats.recentChecks = {c.id}

\* C26 (as stated): for each checkInterval, once the breaker of an endpoint is
\* OPEN and every probe admitted from then on gets the expected status, the
\* loop's ticks bring the breaker to HALF_OPEN and then, after minimumRequests
\* successes, to CLOSED.
C26_OpenBreakerRecovers ==
    (endpointUp /\ cb.state = "OPEN") ~> (cb.state = "CLOSED")

\* C31: the detail-delete step of a run ends, also while probes insert rows;
\* one batch deletes at most batchSize rows, all of them older than the cutoff
\* the step computed when it began; when the step goes on to the aggregates no
\* raw row older than that cutoff is left.
C31_DetailDeleteTerminates ==
    /\ [][/\ Cardinality(raw \ raw') <= BatchSize
          /\ \A r \in raw \ raw' : \E j \in jobs : j.pc = "delete" /\ r.ts < j.cutoff
          /\ \A j \in jobs : j.pc = "delete" =>
                {r \in raw' : r.ts < j.cutoff} \subseteq {r \in raw : r.ts < j.cutoff}
         ]_vars
    /\ [][\A j \in jobs : \A k \in jobs' :
            (j.pc = "delete" /\ k.jid = j.jid /\ k.pc = "aggHourly") =>
                \A r \in raw' : r.ts >= j.cutoff
         ]_vars
    /\ ((\E j \in jobs : j.pc = "delete") ~> (\A j \in jobs : j.pc # "delete"))

\* C31's case: the step is about to run its last, empty batch; a probe stored
\* a row after the step computed its cutoff, and a row an hourly aggregate
\* counted is gone from the raw table.
C31_Witness ==
    \E j \in jobs :
        /\ j.pc = "delete"
        /\ \A r \in raw : r.ts >= j.cutoff
        /\ \E r \in raw : r.id \in InsertedIds
                          /\ r.ts > j.cutoff + DetailRetentionDays * TicksPerDay
        /\ \E h \in hourly : h.bucket * TicksPerHour < j.cutoff
                          /\ \A r \in raw : r.ts \div TicksPerHour # h.bucket

\* C32: when the insert of a check row fails, a systemStatus error notice is
\* published, no row is stored, the probe goes on as after a stored row (the
\* short-circuit path returns; the other paths count the outcome in
\* consecutiveFailures, publish newCheck and read the statistics), the timers
\* stay registered, and a tick of a registered timer starts a probe.
C32_LoopSurvivesFailedInsert ==
    /\ [][\A p \in probes :
            StoreDone(p, FALSE) =>
                /\ dbChecks' = dbChecks
                /\ \E i \in 1..Len(bus') :
                      bus'[i] = [event |-> "systemStatus",
                                 message |-> <<"Failed to store check result in database">>,
                                 type |-> "error"]
                /\ timers' = timers /\ intervals' = intervals
                /\ IF p.pc = "storeOpen"
                   THEN /\ probes' = probes \ {p}
                        /\ consecutiveFailures' = consecutiveFailures
                   ELSE /\ probes' = (probes \ {p}) \cup {[p EXCEPT !.pc = "statsEndpoint"]}
                        /\ consecutiveFailures'[p.endpoint.id] =
                              IF p.check.status = "UP" THEN 0
                              ELSE consecutiveFailures[p.endpoint.id] + 1
                        /\ p.pid \in announced'
         ]_vars
    /\ [][\A tm \in timers :
            TimerTick(tm) =>
                \E q \in probes' \ probes : q.endpoint = tm.endpoint /\ q.pid = nextPid
         ]_vars

\* C32's case: the check of one probe was published and is not in the table
\* (its insert failed), the loop's timer is registered and a later probe of the
\* endpoint is waiting for its response.
C32_Witness ==
    \E a \in announced :
        /\ \A c \in dbChecks : c.id # a
        /\ \A p \in probes : p.pid # a
        /\ \E tm \in timers, p \in probes :
              p.endpoint = tm.endpoint /\ p.pid > a /\ p.pc = "fetch"

\* C33: a probe whose request was cancelled at its deadline gets a DOWN check
\* with statusCode 0 and errorReason "Timeout after {timeout}s", and when the
\* check is processed consecutiveFailures grows by one.
C33_DeadlineRecordedAsTimeout ==
    /\ [][\A p \in probes :
            (FetchDone(p, "timeout") \/ FetchDone(p, "aborted")) =>
                \E q \in probes' :
                    /\ q.pid = p.pid /\ q.pc = "storeDown"
                    /\ q.check.status = "DOWN"
                    /\ q.check.statusCode = 0
                    /\ q.check.errorReason =
                          "Timeout after " \o ToString(q.endpoint.timeout) \o "s"
         ]_vars
    /\ [][\A p \in probes, ok \in BOOLEAN :
            (p.pc = "storeDown" /\ StoreDone(p, ok)) =>
                consecutiveFailures'[p.endpoint.id] =
                    consecutiveFailures[p.endpoint.id] + 1
         ]_vars

\* C34: when the fetch of an admitted probe settles, the probe's check is UP
\* exactly if a response of the expected status arrived; a response of another
\* status gives a DOWN check with that status as statusCode and errorReason
\* "Got {got}, expected {expected}", and the breaker counts one more request
\* and one more failure, stamped with the instant of the failure.
C34_UpIffExpectedStatus ==
    [][\A p \in probes, outcome \in FetchOutcomes :
          FetchDone(p, outcome) =>
              \E q \in probes' :
                  /\ q.pid = p.pid
                  /\ (q.check.status = "UP") <=> (outcome = "ok")
                  /\ (q.check.status = "DOWN") <=> (outcome # "ok")
                  /\ outcome = "ok" => q.check.statusCode = ExpectedStatus
                  /\ outcome = "status" =>
                        /\ q.check.statusCode = UnexpectedStatus
                        /\ q.check.errorReason =
                              "Got " \o ToString(UnexpectedStatus) \o ", expected "
                                     \o ToString(ExpectedStatus)
                        /\ Breaker(q)'.failures = Breaker(p).failures + 1
                        /\ Breaker(q)'.requestCount = Breaker(p).requestCount + 1
                        /\ Breaker(q)'.requestTimestamps =
                              Append(Breaker(p).requestTimestamps, now)
      ]_vars

\* C34's case: an UP check is stored, and a later probe that got a response of
\* another status holds its DOWN check, counted by the breaker.
C34_Witness ==
    \E p \in probes, c \in dbChecks :
        /\ c.status = "UP" /\ c.statusCode = ExpectedStatus /\ c.id < p.pid
        /\ p.pc = "storeDown"
        /\ p.check.statusCode = UnexpectedStatus
        /\ Breaker(p).failures >= 1

\* C35: a session whose requestFullUpdate handler has ended over a snapshot of
\* n >= 1 statistics was sent ceil(n / 20) bulkUpdate messages of 1 to 20
\* statistics each, which put together in the order sent are the snapshot;
\* over an empty snapshot it was sent no bulkUpdate and one info notice.
C35_FullUpdateInChunks ==
    \A s \in SessionIds :
        fullUpdates[s].pc = "done" =>
            LET all  == fullUpdates[s].all
                n    == Len(all)
                bulk == SelectSeq(inbox[s], LAMBDA ev : ev.event = "bulkUpdate")
                sent[k \in 0..Len(bulk)] ==
                    IF k = 0 THEN <<>> ELSE sent[k - 1] \o bulk[k].message
                info == SelectSeq(inbox[s], LAMBDA ev :
                            ev = Notice("No monitoring data available yet", "info"))
            IN  IF n >= 1
                THEN /\ Len(bulk) = (n + CHUNK_SIZE - 1) \div CHUNK_SIZE
                     /\ \A k \in 1..Len(bulk) :
                           Len(bulk[k].message) \in 1..CHUNK_SIZE
                     /\ sent[Len(bulk)] = all
                     /\ Len(info) = 0
                ELSE Len(bulk) = 0 /\ Len(info) = 1

\* C35's case: one session was sent a snapshot of 41 statistics in three
\* messages, the other the notice for an empty snapshot.
C35_Witness ==
    \E s, t \in SessionIds :
        /\ fullUpdates[s].pc = "done" /\ Len(fullUpdates[s].all) = 2 * CHUNK_SIZE + 1
        /\ Len(SelectSeq(inbox[s], LAMBDA ev : ev.event = "bulkUpdate")) = 3
        /\ fullUpdates[t].pc = "done" /\ Len(fullUpdates[t].all) = 0

\* C36: the uptime percentage reported for counts with total > 0 is
\* (up / total) * 100 cut off after two decimals, floor(up * 10000 / total)
\* hundredths; for total = 0 it is 0.
C36_PercentageTruncated ==
    statsOut # NotReported =>
        statsOut = IF statsRow.total > 0
                   THEN (statsRow.successful * 10000) \div statsRow.total
                   ELSE 0

\* C36, amended: the uptime percentage reported for counts with total > 0 is a
\* number of hundredths nearest to (up / total) * 100, no more than half a
\* hundredth away from it; for total = 0 it is 0.
C36_PercentageNearest ==
    statsOut # NotReported =>
        IF statsRow.total > 0
        THEN LET away == statsOut * statsRow.total - statsRow.successful * 10000
             IN  2 * away <= statsRow.total /\ 0 - 2 * away <= statsRow.total
        ELSE statsOut = 0

\* C36's case: up = 2 of total = 3 is reported as 66.67.
C36_Witness ==
    statsRow = [successful |-> 2, total |-> 3] /\ statsOut = 6667

\* The stored checks of endpoint e that report a failed exchange (not a call
\* the open breaker rejected) and are newer than its newest UP check.
RealFailuresSinceUp(e) ==
    LET rows == {c \in dbChecks : c.endpointId = e}
        ups  == {c \in rows : c.status = "UP"}
    IN  {c \in rows : /\ c.status = "DOWN"
                      /\ c.errorReason # "Circuit breaker open"
                      /\ \A u \in ups : u.id < c.id}

\* C37: when an UP check is processed for an endpoint with N >= 1 failed
\* exchanges since its previous UP check, the info notice "back online after N
\* failures" is published with that N, whatever Stop, Start or restart of the
\* loop happened in between.
C37_BackOnlineAfterFailures ==
    [][\A p \in probes :
          (p.pc = "storeUp" /\ StoreDone(p, TRUE)) =>
              LET N == Cardinality(RealFailuresSinceUp(p.endpoint.id))
              IN  N >= 1 =>
                    \E i \in 1..Len(bus') :
                        bus'[i] = [event |-> "systemStatus",
                                   message |-> <<"back online", p.endpoint.id, N>>,
                                   type |-> "info"]
      ]_vars

\* C38: an hourly or daily aggregate row, once written, is never changed by a
\* step of a later run: as long as the table holds a row of its key, it is the
\* row first written, total_checks included, also after the detail delete
\* took a part of the bucket's raw rows.
C38_AggregateRowsStable ==
    [][/\ \A a \in hourly : \A b \in hourly' : SameKey(a, b) => b = a
       /\ \A a \in daily : \A b \in daily' : SameKey(a, b) => b = a
      ]_vars

\* C39: while the scheduler is stopped (stop has returned and start has not
\* been called since) no timer of its calls run, and at all times at most one
\* timer of the first run and at most one daily timer are live.
C39_StoppedSchedulerSilent ==
    /\ [](scheduler.timeouts <= 1 /\ scheduler.intervalTimers <= 1)
    /\ [][(FirstRunFires \/ DailyFires) => scheduler.isRunning]_vars

\* C40: whenever no call of startMonitoring or restartEndpointMonitoring is in
\* progress, the loop registered for an endpoint carries the configuration the
\* store holds for that endpoint (checkInterval and timeout stand for the
\* fields of the row the loop reads).
C40_LoopCarriesStoredConfig ==
    calls = {} =>
        \A tm \in timers :
            intervals[tm.endpoint.id] = tm.tid =>
                /\ dbEndpoints[tm.endpoint.id].exists
                /\ tm.endpoint.checkInterval = dbEndpoints[tm.endpoint.id].checkInterval
                /\ tm.endpoint.timeout = dbEndpoints[tm.endpoint.id].timeout

====
